---- MODULE Spec2Model ----
(***************************************************************************)
(* The Submit Service of the armada control plane (package server):        *)
(* SubmitJobs, CancelJobs, ReprioritizeJobs and GetQueueInfo as            *)
(* request-concurrent processes over the queue registry, the job store,    *)
(* the event sink, the id generator and the clock.  Every collaborator     *)
(* call is one atomic step of the calling request; the computation between *)
(* two collaborator calls is folded into the step that follows it.         *)
(***************************************************************************)
EXTENDS Integers, Sequences, FiniteSets, TLC

\* ------------------------------------------------------------------ bounds
MaxItems == 2      \* items of one SubmitJobs request
MaxConcItems == 1  \* items of each of two concurrent SubmitJobs requests
MaxStored == 2     \* jobs in the store before the first request
MaxTime == 3       \* clock ticks (half seconds) the model lets pass
MaxRetries == 1    \* retries of the optimistic loop of update_jobs
MaxFaults == 1     \* collaborator failures in one behaviour
MaxSubmitFaults == 2  \* collaborator failures beside one SubmitJobs request alone
MaxContainers == 1    \* containers of a pod spec
MaxTolerations == 2   \* tolerations a pod spec lists
MaxIngress == 2       \* ingress configurations of an item
MaxPorts == 2         \* ports of an ingress configuration
MaxText == 5          \* tokens of a label or annotation value
MaxOwners == 2        \* user owners, and group owners, of an owned object

Procs == {1, 2}

\* ------------------------------------------------------------------ data
NoQueue == [name |-> "<none>", priorityFactor |-> 0, permissions |-> <<>>]
NoClient == ""
NoDeadline == -1
\* A returned result: none (a nil response), or the response.
Nil == <<>>
Result(v) == <<v>>

Second == 2        \* one second, in clock ticks

Verbs == {"submit", "cancel", "reprioritize", "watch"}

\* Principals of the requests: name, groups, scopes, claims.
Principals ==
  { [name |-> "root", groups |-> {"admins"}, scopes |-> {}, claims |-> {}],
    [name |-> "svc", groups |-> {}, scopes |-> {"ops"}, claims |-> {"batch"}],
    [name |-> "alice", groups |-> {"devs"}, scopes |-> {}, claims |-> {}],
    [name |-> "bob", groups |-> {}, scopes |-> {}, claims |-> {}] }

PrincipalOf(n) == CHOOSE pr \in Principals : pr.name = n

AnyPerms == {"submit_any_jobs", "cancel_any_jobs", "reprioritize_any_jobs", "watch_all_events"}

\* The three allow-maps of the permission checker: permission -> values.
\* A permission the configuration does not name is outside the domain.
permissionGroupMap ==
  [perm \in AnyPerms \cup {"create_queue", "delete_queue"} |-> {"admins"}]

permissionScopeMap == [perm \in {"submit_any_jobs", "cancel_any_jobs"} |-> {"ops"}]

permissionClaimMap == [perm \in {"reprioritize_any_jobs"} |-> {"batch"}]

\* hasPermission: the map names perm and some value listed for it
\* satisfies the assertion (here: is among the values the principal holds).
hasPermission(perm, permMap, held) ==
  IF perm \notin DOMAIN permMap THEN FALSE
  ELSE \E value \in permMap[perm] : value \in held

\* The check without its claim map.
UserHasPermissionNoClaims(pr, perm) ==
  \/ hasPermission(perm, permissionScopeMap, pr.scopes)
  \/ hasPermission(perm, permissionGroupMap, pr.groups)

UserHasPermission(pr, perm) ==
  \/ hasPermission(perm, permissionScopeMap, pr.scopes)
  \/ hasPermission(perm, permissionGroupMap, pr.groups)
  \/ hasPermission(perm, permissionClaimMap, pr.claims)

\* UserOwns reporting the owning groups of a direct owner too.
UserOwnsWithGroups(pr, obj) ==
  LET IsIn(group) == group \in pr.groups
      ownershipGroups == SelectSeq(obj.groupOwners, IsIn)
  IN [owned |-> (\E k \in 1..Len(obj.userOwners) : obj.userOwners[k] = pr.name)
                  \/ Len(ownershipGroups) > 0,
      ownershipGroups |-> ownershipGroups]

\* UserOwns: a user owner owns with no groups reported; anyone else owns
\* through the owning groups the principal is in, reported in obj's order.
UserOwns(pr, obj) ==
  IF \E k \in 1..Len(obj.userOwners) : obj.userOwners[k] = pr.name
  THEN [owned |-> TRUE, ownershipGroups |-> <<>>]
  ELSE LET IsIn(group) == group \in pr.groups
           ownershipGroups == SelectSeq(obj.groupOwners, IsIn)
       IN [owned |-> Len(ownershipGroups) > 0, ownershipGroups |-> ownershipGroups]

\* checkPermission: nil iff the principal has the permission.
checkPermission(pr, perm) == UserHasPermission(pr, perm)

UserSubject(n) == [kind |-> "user", name |-> n]
GroupSubject(g) == [kind |-> "group", name |-> g]

\* queue.Queue.HasPermission: some binding lists the subject and the verb.
HasPermission(q, subject, verb) ==
  \E k \in 1..Len(q.permissions) :
    /\ subject \in q.permissions[k].subjects
    /\ verb \in q.permissions[k].verbs

\* checkQueuePermission: the queue grants the verb to the caller as a user
\* or through one of the caller's groups.
checkQueuePermission(pr, q, verb) ==
  \/ HasPermission(q, UserSubject(pr.name), verb)
  \/ \E g \in pr.groups : HasPermission(q, GroupSubject(g), verb)

\* queue.NewPermissionsFromOwners: one binding, all verbs, for the owners.
NewPermissionsFromOwners(users, groups) ==
  [subjects |-> {UserSubject(u) : u \in users} \cup {GroupSubject(g) : g \in groups},
   verbs |-> Verbs]

\* The check without its queue tier.
AuthorizeGlobalOnly(pr, q, anyPerm, verb) ==
  IF checkPermission(pr, anyPerm) THEN "ok" ELSE "denied"

\* The two-tier check every operation runs: "ok" or "denied".
Authorize(pr, q, anyPerm, verb) ==
  IF checkPermission(pr, anyPerm) THEN "ok"
  ELSE IF checkQueuePermission(pr, q, verb) THEN "ok"
  ELSE "denied"

\* Every group of the caller, whatever the queue grants.
OwnershipGroupsAll(pr, q) == pr.groups

\* The ownership groups stamped on the jobs of a submit request.
OwnershipGroups(pr, q) ==
  IF HasPermission(q, UserSubject(pr.name), "submit") THEN {}
  ELSE {g \in pr.groups : HasPermission(q, GroupSubject(g), "submit")}

\* util.Batch: consecutive chunks of at most size elements.
RECURSIVE Batch(_, _)
Batch(ids, size) ==
  IF Len(ids) = 0 THEN <<>>
  ELSE IF Len(ids) <= size THEN <<ids>>
  ELSE <<SubSeq(ids, 1, size)>> \o Batch(SubSeq(ids, size + 1, Len(ids)), size)

\* util.CloseToDeadline: the context has a deadline and it is before now + tolerance.
CloseToDeadline(deadline, t, tolerance) ==
  deadline # NoDeadline /\ deadline < t + tolerance

RECURSIVE SeqOfSet(_)
SeqOfSet(S) ==
  IF S = {} THEN <<>>
  ELSE LET m == CHOOSE x \in S : \A y \in S : x <= y
       IN <<m>> \o SeqOfSet(S \ {m})

Range(s) == {s[k] : k \in 1..Len(s)}

RECURSIVE Flatten(_)
Flatten(ss) == IF Len(ss) = 0 THEN <<>> ELSE Head(ss) \o Flatten(Tail(ss))

\* ------------------------------------------------------------------ state
VARIABLES
  queues,      \* queue registry: queue name -> queue, or NoQueue
  jobs,        \* job store: the set of stored jobs
  events,      \* event sink: the sequence of appended events
  nextId,      \* id generator: the next id it mints
  now,         \* clock, in ticks
  autoCreate,  \* queueManagementConfig.AutoCreateQueues
  batchSize,   \* cancelJobsBatchSize
  pc,          \* where each request is
  req,         \* each request: operation, principal (ctx), payload, deadline (ctx)
  loc,         \* each request's local variables
  ret,         \* what each request returned: status code and result
  after,       \* the requests that had returned when this one started
  faults       \* collaborator failures the environment may still inject

vars == <<queues, jobs, events, nextId, now, autoCreate, batchSize, pc, req, loc, ret, after, faults>>
shared == <<queues, jobs, events, nextId>>
config == <<autoCreate, batchSize>>

QueueNames == {"q1", ""}
JobSetIds == {"js1", ""}

Running == [status |-> "", result |-> Nil]

InitLoc ==
  [ q |-> NoQueue,        \* the queue the request resolved
    createRes |-> "",     \* outcome of queueRepository.CreateQueue in getQueueOrCreate
    auth |-> "",          \* outcome of the two-tier check
    groups |-> {},        \* ownership groups
    jobs |-> <<>>,        \* jobs built (submit) or fetched (cancel, reprioritize)
    results |-> <<>>,     \* submissionResults / updateJobResults
    ids |-> <<>>,         \* active job ids
    bi |-> 0,             \* batches finished
    cancelledIds |-> <<>>,
    batchIds |-> <<>>,    \* cancelledIds of the running cancelJobs call
    deleted |-> {},       \* ids delete_jobs removed for this request
    snapshot |-> <<>>,    \* jobs update_jobs fetched
    tries |-> 0,          \* retries of update_jobs so far
    update |-> "",        \* how update_jobs ended: committed or rejected
    message |-> <<>>,     \* the refusals named in a PermissionDenied message
    addErr |-> FALSE,     \* jobRepository.AddJobs failed as a whole
    reportErr |-> FALSE ] \* an event append of the request returned an error

Return(p, status, result) ==
  /\ pc' = [pc EXCEPT ![p] = "done"]
  /\ ret' = [ret EXCEPT ![p] = [status |-> status, result |-> result]]

Goto(p, label) ==
  /\ pc' = [pc EXCEPT ![p] = label]
  /\ UNCHANGED ret

Principal(p) == PrincipalOf(req[p].principal)

\* A collaborator call fails (unreachable store, registry, sink or oracle).
Fault ==
  /\ faults > 0
  /\ faults' = faults - 1

NoFault == UNCHANGED faults

\* One event per job, in order, as the report functions build them.
EventsFor(type, js, p) ==
  [k \in 1..Len(js) |-> [type |-> type, jobId |-> js[k].id, by |-> p]]

ReportOutcomesEmptyFails(batch) == BOOLEAN

\* EventStore.ReportEvents: an empty batch is a no-op that cannot fail.
ReportOutcomes(batch) == IF Len(batch) = 0 THEN {TRUE} ELSE BOOLEAN

FirstOp(op) ==
  CASE op = "submit" -> "s_getQueue"
    [] op = "cancel" -> "c_dispatch"
    [] op = "reprioritize" -> "r_fetch"
    [] op = "queueInfo" -> "g_getQueue"
    [] op = "createQueue" -> "q_create"
    [] op = "updateQueue" -> "q_update"
    [] op = "deleteQueue" -> "d_activeSets"
    [] op = "getQueue" -> "gq_get"
    [] op = "userOwns" -> "uo_call"

\* A request arrives at the server.
Start(p) ==
  /\ pc[p] = "idle"
  /\ pc' = [pc EXCEPT ![p] = FirstOp(req[p].op)]
  /\ after' = [after EXCEPT ![p] = {o \in Procs : pc[o] = "done"}]
  /\ UNCHANGED <<shared, now, config, req, loc, ret, faults>>

\* ------------------------------------------------------------ SubmitJobs
\* queueManagementConfig.DefaultPriorityFactor.
DefaultPriorityFactor == 2

\* The queue getQueueOrCreate builds for a name the registry does not hold.
AutoCreatedQueue(name, pr) ==
  [name |-> name,
   priorityFactor |-> DefaultPriorityFactor,
   permissions |-> <<NewPermissionsFromOwners({pr.name}, pr.groups)>>]

\* getQueueOrCreate creating the queue for any caller.
SubmitGetQueueAnyCaller(p) ==
  /\ pc[p] = "s_getQueue"
  /\ \/ /\ queues[req[p].queue] # NoQueue
        /\ loc' = [loc EXCEPT ![p].q = queues[req[p].queue]]
        /\ Goto(p, "s_auth")
        /\ NoFault
     \/ /\ queues[req[p].queue] = NoQueue
        /\ NoFault
        /\ IF ~autoCreate
           THEN /\ Return(p, "NotFound", Nil)
                /\ UNCHANGED loc
           ELSE /\ loc' = [loc EXCEPT ![p].q = AutoCreatedQueue(req[p].queue, Principal(p))]
                /\ Goto(p, "s_createQueue")
     \/ /\ Fault
        /\ Return(p, "Unavailable", Nil)
        /\ UNCHANGED loc
  /\ UNCHANGED <<shared, now, config, req, after>>

\* getQueueOrCreate: queueRepository.GetQueue and what follows it.
SubmitGetQueue(p) ==
  /\ pc[p] = "s_getQueue"
  /\ \/ /\ queues[req[p].queue] # NoQueue
        /\ loc' = [loc EXCEPT ![p].q = queues[req[p].queue]]
        /\ Goto(p, "s_auth")
        /\ NoFault
     \/ /\ queues[req[p].queue] = NoQueue
        /\ NoFault
        /\ IF ~autoCreate \/ ~UserHasPermission(Principal(p), "submit_any_jobs")
           THEN /\ Return(p, "NotFound", Nil)
                /\ UNCHANGED loc
           ELSE /\ loc' = [loc EXCEPT ![p].q = AutoCreatedQueue(req[p].queue, Principal(p))]
                /\ Goto(p, "s_createQueue")
     \/ /\ Fault
        /\ Return(p, "Unavailable", Nil)
        /\ UNCHANGED loc
  /\ UNCHANGED <<shared, now, config, req, after>>

\* getQueueOrCreate: queueRepository.CreateQueue; any error aborts the request.
SubmitCreateQueue(p) ==
  /\ pc[p] = "s_createQueue"
  /\ \/ /\ queues[req[p].queue] = NoQueue
        /\ queues' = [queues EXCEPT ![req[p].queue] = loc[p].q]
        /\ loc' = [loc EXCEPT ![p].createRes = "ok"]
        /\ Goto(p, "s_auth")
        /\ NoFault
     \/ /\ queues[req[p].queue] # NoQueue
        /\ NoFault
        /\ loc' = [loc EXCEPT ![p].createRes = "exists"]
        /\ Return(p, "Aborted", Nil)
        /\ UNCHANGED queues
     \/ /\ Fault
        /\ loc' = [loc EXCEPT ![p].createRes = "error"]
        /\ Return(p, "Aborted", Nil)
        /\ UNCHANGED queues
  /\ UNCHANGED <<jobs, events, nextId, now, config, req, after>>

\* The refusal of a global permission, and of a queue verb; Nil when granted.
GlobalPermErr(pr, perm) == IF checkPermission(pr, perm) THEN Nil ELSE <<perm>>

QueuePermErr(pr, q, verb) == IF checkQueuePermission(pr, q, verb) THEN Nil ELSE <<verb>>

MergeGlobalOnly(globalErr, queueErr) == globalErr

\* MergePermissionErrors: one message naming every refusal it is given.
MergePermissionErrors(globalErr, queueErr) == globalErr \o queueErr

\* The two-tier check for verb submit, then the ownership groups.
SubmitAuthorize(p) ==
  /\ pc[p] = "s_auth"
  /\ LET a == Authorize(Principal(p), loc[p].q, "submit_any_jobs", "submit")
     IN /\ loc' = [loc EXCEPT ![p].auth = a,
                              ![p].groups = OwnershipGroups(Principal(p), loc[p].q),
                              ![p].message =
                                 IF a = "denied"
                                 THEN MergePermissionErrors(
                                        GlobalPermErr(Principal(p), "submit_any_jobs"),
                                        QueuePermErr(Principal(p), loc[p].q, "submit"))
                                 ELSE @]
        /\ IF a = "denied"
           THEN Return(p, "PermissionDenied", Nil)
           ELSE Goto(p, "s_createJobs")
  /\ UNCHANGED <<shared, now, config, req, after, faults>>

\* ---------------------------------------------------- pod spec defaulting
ResourceNames == {"cpu", "memory"}
Quantities == {1, 2}

\* A v1.ResourceList: quantities for some of the resources.
ResourceLists == UNION {[S -> Quantities] : S \in SUBSET ResourceNames}
NoResources == [r \in {} |-> 0]

\* schedulingConfig.DefaultJobLimits.
DefaultJobLimits == [r \in {"memory"} |-> 3]

Toleration(key, effect) == [key |-> key, operator |-> "Equal", value |-> "true", effect |-> effect]

\* schedulingConfig.DefaultJobTolerations.
DefaultJobTolerations == <<Toleration("gpu", "NoSchedule")>>

\* v1.Toleration.MatchToleration: the same key, effect, operator and value.
MatchToleration(t, other) ==
  /\ t.key = other.key
  /\ t.effect = other.effect
  /\ t.operator = other.operator
  /\ t.value = other.value

\* Only the limits copied into the requests.
fillRequestsOnly(c) ==
  [requests |-> [r \in DOMAIN c.requests \cup DOMAIN c.limits |->
                   IF r \in DOMAIN c.requests THEN c.requests[r] ELSE c.limits[r]],
   limits |-> c.limits]

\* fillContainerRequestsAndLimits, for one container: each limit without a
\* request becomes the request, then each request without a limit the limit.
fillContainerRequestsAndLimits(c) ==
  LET requests == [r \in DOMAIN c.requests \cup DOMAIN c.limits |->
                     IF r \in DOMAIN c.requests THEN c.requests[r] ELSE c.limits[r]]
  IN [requests |-> requests,
      limits |-> [r \in DOMAIN c.limits \cup DOMAIN requests |->
                    IF r \in DOMAIN c.limits THEN c.limits[r] ELSE requests[r]]]

\* Every default applied, whatever the container names.
applyDefaultLimitsAlways(c) ==
  [requests |-> [r \in DOMAIN c.requests \cup DOMAIN DefaultJobLimits |->
                   IF r \in DOMAIN DefaultJobLimits THEN DefaultJobLimits[r] ELSE c.requests[r]],
   limits |-> [r \in DOMAIN c.limits \cup DOMAIN DefaultJobLimits |->
                 IF r \in DOMAIN DefaultJobLimits THEN DefaultJobLimits[r] ELSE c.limits[r]]]

\* applyDefaultsToPodSpec, for one container: a default is applied when
\* hasLimit and hasRequest are both false, and both are read from the limits.
applyDefaultLimits(c) ==
  LET missing == {res \in DOMAIN DefaultJobLimits : res \notin DOMAIN c.limits /\ res \notin DOMAIN c.limits}
  IN [requests |-> [r \in DOMAIN c.requests \cup missing |->
                      IF r \in missing THEN DefaultJobLimits[r] ELSE c.requests[r]],
      limits |-> [r \in DOMAIN c.limits \cup missing |->
                    IF r \in missing THEN DefaultJobLimits[r] ELSE c.limits[r]]]

\* podTolerations[key]: the map keeps the last toleration listed for a key.
LastWithKey(tolerations, key) ==
  LET at == {k \in 1..Len(tolerations) : tolerations[k].key = key}
  IN tolerations[CHOOSE k \in at : \A o \in at : o <= k]

\* applyDefaultsToPodSpec: a default toleration is appended unless the map
\* holds a toleration for its key that matches it.
applyDefaultTolerations(tolerations) ==
  LET Missing(d) ==
        \/ \A k \in 1..Len(tolerations) : tolerations[k].key # d.key
        \/ ~MatchToleration(d, LastWithKey(tolerations, d.key))
  IN tolerations \o SelectSeq(DefaultJobTolerations, Missing)

\* createJobsObjects on one pod spec: fillContainerRequestsAndLimits, then
\* applyDefaultsToPodSpec.
DefaultedPodSpec(pod) ==
  [containers |-> [i \in 1..Len(pod.containers) |->
                     applyDefaultLimits(fillContainerRequestsAndLimits(pod.containers[i]))],
   tolerations |-> applyDefaultTolerations(pod.tolerations)]

\* validateIngressConfigs, the inner loop: the ports of one configuration
\* against the ports seen so far.
RECURSIVE scanPorts(_, _)
scanPorts(ports, existingPortSet) ==
  IF Len(ports) = 0 THEN [ok |-> TRUE, existingPortSet |-> existingPortSet]
  ELSE IF Head(ports) \in existingPortSet
  THEN [ok |-> FALSE, existingPortSet |-> existingPortSet]
  ELSE scanPorts(Tail(ports), existingPortSet \cup {Head(ports)})

\* validateIngressConfigs, the outer loop over the configurations.
RECURSIVE scanIngress(_, _)
scanIngress(ingress, existingPortSet) ==
  IF Len(ingress) = 0 THEN TRUE
  ELSE IF Len(Head(ingress).ports) = 0 THEN FALSE
  ELSE LET r == scanPorts(Head(ingress).ports, existingPortSet)
       IN r.ok /\ scanIngress(Tail(ingress), r.existingPortSet)

\* validateIngressConfigs: nil (TRUE) or an error (FALSE).
validateIngressConfigs(item) == scanIngress(item.ingress, {})

\* A label or annotation value is a sequence of tokens: the braces, the
\* word JobId, the three characters space-backslash-z that enrichText uses
\* as its placeholder, and any other character.
TextTokens == {"{", "}", "JobId", " \\z", "x"}

\* strings.ReplaceAll: the non-overlapping occurrences of old, found from
\* the left, become new.
RECURSIVE ReplaceAll(_, _, _)
ReplaceAll(s, old, new) ==
  IF Len(s) < Len(old) THEN s
  ELSE IF SubSeq(s, 1, Len(old)) = old
  THEN new \o ReplaceAll(SubSeq(s, Len(old) + 1, Len(s)), old, new)
  ELSE <<Head(s)>> \o ReplaceAll(Tail(s), old, new)

\* The text of a minted id.
IdText(jobId) == <<ToString(jobId)>>

\* enrichText: every value of the map goes through the three replacements.
enrichText(labels, jobId) ==
  [key \in DOMAIN labels |->
     LET escaped == ReplaceAll(labels[key], <<"{", "{", "JobId", "}", "}">>, <<" \\z">>)
         filled == ReplaceAll(escaped, <<"{", "JobId", "}">>, IdText(jobId))
     IN ReplaceAll(filled, <<" \\z">>, <<"JobId">>)]

\* JobSubmitRequestItem.GetAllPodSpecs: how many pod specs the item carries.
GetAllPodSpecs(item) == IF item.podSpec THEN 1 ELSE item.podSpecs

ItemAcceptedAnyPodSpecs(item) == item.valid

\* createJobsObjects: the checks of one item.
ItemAccepted(item) ==
  /\ ~(item.podSpec /\ item.podSpecs > 0)
  /\ GetAllPodSpecs(item) # 0
  /\ validateIngressConfigs(item)
  /\ item.valid

\* util.NewULID: the generator hands out the next id.
NewULID(n) == n + 1

\* createJobsObjects, one turn of its loop: validate the item, mint its id, build its job.
SubmitCreateJobs(p) ==
  /\ pc[p] = "s_createJobs"
  /\ IF req[p].jobSetId = "" \/ req[p].queue = ""
     THEN /\ Return(p, "InvalidArgument", Nil)
          /\ UNCHANGED <<loc, nextId>>
     ELSE IF Len(req[p].items) = 0
     THEN /\ Goto(p, "s_schedInfo")
          /\ UNCHANGED <<loc, nextId>>
     ELSE LET i == Len(loc[p].jobs) + 1
              item == req[p].items[i]
          IN IF ~ItemAccepted(item)
             THEN /\ Return(p, "InvalidArgument", Nil)
                  /\ UNCHANGED <<loc, nextId>>
             ELSE /\ nextId' = NewULID(nextId)
                  /\ loc' = [loc EXCEPT ![p].jobs = Append(@,
                               [id |-> nextId,
                                clientId |-> item.clientId,
                                queue |-> req[p].queue,
                                jobSetId |-> req[p].jobSetId,
                                priority |-> item.priority,
                                owner |-> Principal(p).name,
                                groups |-> loc[p].groups,
                                cpu |-> item.cpu,
                                pod |-> DefaultedPodSpec(item.pod),
                                ingress |-> item.ingress,
                                labels |-> enrichText(item.labels, nextId),
                                annotations |-> enrichText(item.annotations, nextId)])]
                  /\ Goto(p, IF i = Len(req[p].items) THEN "s_schedInfo" ELSE "s_createJobs")
  /\ UNCHANGED <<queues, jobs, events, now, config, req, after, faults>>

\* Capacity the scheduling-info oracle reports, one entry per cluster.
ClusterCapacities == {1, 2}

\* validateJobsCanBeScheduled: every job fits on at least one cluster.
validateJobsCanBeScheduled(js) ==
  \A k \in 1..Len(js) : \E c \in ClusterCapacities : js[k].cpu <= c

\* GetClusterSchedulingInfo and the feasibility check.
SubmitFeasibility(p) ==
  /\ pc[p] = "s_schedInfo"
  /\ \/ /\ Fault
        /\ Return(p, "InvalidArgument", Nil)
     \/ /\ NoFault
        /\ IF validateJobsCanBeScheduled(loc[p].jobs)
           THEN Goto(p, "s_reportSubmitted")
           ELSE Return(p, "InvalidArgument", Nil)
  /\ UNCHANGED <<shared, now, config, req, loc, after>>

\* reportSubmitted with its error ignored.
SubmitReportSubmittedUnchecked(p) ==
  /\ pc[p] = "s_reportSubmitted"
  /\ LET batch == EventsFor("submitted", loc[p].jobs, p)
     IN \E ok \in ReportOutcomes(batch) :
          /\ IF ok THEN NoFault /\ events' = events \o batch
                   ELSE Fault /\ UNCHANGED events
          /\ Goto(p, "s_addJobs")
  /\ UNCHANGED <<queues, jobs, nextId, now, config, req, loc, after>>

\* reportSubmitted: one submitted event per job, or the request aborts.
SubmitReportSubmitted(p) ==
  /\ pc[p] = "s_reportSubmitted"
  /\ LET batch == EventsFor("submitted", loc[p].jobs, p)
     IN \E ok \in ReportOutcomes(batch) :
          IF ok
          THEN /\ NoFault
               /\ events' = events \o batch
               /\ Goto(p, "s_addJobs")
               /\ UNCHANGED loc
          ELSE /\ Fault
               /\ Return(p, "Aborted", Nil)
               /\ loc' = [loc EXCEPT ![p].reportErr = TRUE]
               /\ UNCHANGED events
  /\ UNCHANGED <<queues, jobs, nextId, now, config, req, after>>

\* JobRepository.AddJobs, for one job: the stored jobs with the job's
\* (queue, job_set_id, client_id); a job without client id has no duplicate.
DuplicatesOf(store, job) ==
  {s \in store : /\ job.clientId # NoClient
                 /\ s.queue = job.queue
                 /\ s.jobSetId = job.jobSetId
                 /\ s.clientId = job.clientId}

\* The result AddJobs gives for one job: the existing id when a duplicate.
AddJobResult(store, job, failed) ==
  IF failed THEN [jobId |-> job.id, error |-> TRUE, dup |-> FALSE]
  ELSE IF DuplicatesOf(store, job) # {}
  THEN [jobId |-> (CHOOSE s \in DuplicatesOf(store, job) : TRUE).id,
        error |-> FALSE, dup |-> TRUE]
  ELSE [jobId |-> job.id, error |-> FALSE, dup |-> FALSE]

\* The store after AddJobs handled one job: a duplicate is not replaced.
AddJobStore(store, job, failed) ==
  IF failed \/ DuplicatesOf(store, job) # {} THEN store ELSE store \cup {job}

\* jobRepository.AddJobs: the call fails as a whole before any write, or
\* handles the jobs one at a time, each atomically.
SubmitAddJobs(p) ==
  /\ pc[p] = "s_addJobs"
  /\ IF Len(loc[p].jobs) = 0
     THEN /\ Goto(p, "s_reportFailed")
          /\ UNCHANGED <<loc, jobs, faults>>
     ELSE LET k == Len(loc[p].results) + 1
              job == loc[p].jobs[k]
          IN \/ /\ k = 1
                /\ Fault
                /\ Goto(p, "s_reportFailedAll")
                /\ loc' = [loc EXCEPT ![p].addErr = TRUE]
                /\ UNCHANGED jobs
             \/ \E failed \in BOOLEAN :
                  /\ IF failed THEN Fault ELSE NoFault
                  /\ loc' = [loc EXCEPT ![p].results =
                               Append(@, AddJobResult(jobs, job, failed))]
                  /\ jobs' = AddJobStore(jobs, job, failed)
                  /\ Goto(p, IF k = Len(loc[p].jobs) THEN "s_reportFailed" ELSE "s_addJobs")
  /\ UNCHANGED <<queues, events, nextId, now, config, req, after>>

\* The whole failure of AddJobs returned without a report.
SubmitReportFailedAllSilent(p) ==
  /\ pc[p] = "s_reportFailedAll"
  /\ Return(p, "Aborted", Nil)
  /\ UNCHANGED <<shared, now, config, req, loc, after, faults>>

\* AddJobs failed as a whole: a failed event for every job, then Aborted.
SubmitReportFailedAll(p) ==
  /\ pc[p] = "s_reportFailedAll"
  /\ LET batch == EventsFor("failed", loc[p].jobs, p)
     IN \E ok \in ReportOutcomes(batch) :
          IF ok
          THEN /\ NoFault
               /\ events' = events \o batch
               /\ Return(p, "Aborted", Nil)
               /\ UNCHANGED loc
          ELSE /\ Fault
               /\ Return(p, "Internal", Nil)
               /\ loc' = [loc EXCEPT ![p].reportErr = TRUE]
               /\ UNCHANGED events
  /\ UNCHANGED <<queues, jobs, nextId, now, config, req, after>>

Indices(n) == [k \in 1..n |-> k]

\* The partition of the submission results: the jobs that failed, the
\* jobs found to be duplicates and the jobs created, each in input order.
jobFailuresNone(js, results) == <<>>

jobFailures(js, results) ==
  LET Failed(k) == results[k].error
  IN [x \in 1..Len(SelectSeq(Indices(Len(results)), Failed)) |->
        js[SelectSeq(Indices(Len(results)), Failed)[x]]]

\* The partition without its duplicates.
doubleSubmitsDropped(js, results) == <<>>

doubleSubmits(js, results) ==
  LET Dup(k) == ~results[k].error /\ results[k].dup
  IN [x \in 1..Len(SelectSeq(Indices(Len(results)), Dup)) |->
        js[SelectSeq(Indices(Len(results)), Dup)[x]]]

\* The partition without its test for duplicates.
createdJobsAll(js, results) ==
  LET Created(k) == ~results[k].error
  IN [x \in 1..Len(SelectSeq(Indices(Len(results)), Created)) |->
        js[SelectSeq(Indices(Len(results)), Created)[x]]]

createdJobs(js, results) ==
  LET Created(k) == ~results[k].error /\ ~results[k].dup
  IN [x \in 1..Len(SelectSeq(Indices(Len(results)), Created)) |->
        js[SelectSeq(Indices(Len(results)), Created)[x]]]

\* A response that lists only the results with an error.
JobResponseItemsErrorsOnly(results) ==
  LET Failed(r) == r.error
  IN [k \in 1..Len(SelectSeq(results, Failed)) |->
        [jobId |-> SelectSeq(results, Failed)[k].jobId, error |-> TRUE]]

\* The response with its items in the opposite order.
JobResponseItemsReversed(results) ==
  [k \in 1..Len(results) |->
     [jobId |-> results[Len(results) + 1 - k].jobId,
      error |-> results[Len(results) + 1 - k].error]]

\* The response: one item per submission result, in order.
JobResponseItems(results) ==
  [k \in 1..Len(results) |-> [jobId |-> results[k].jobId, error |-> results[k].error]]

\* reportFailed for the jobs the store refused.
SubmitReportFailed(p) ==
  /\ pc[p] = "s_reportFailed"
  /\ LET batch == EventsFor("failed", jobFailures(loc[p].jobs, loc[p].results), p)
     IN \E ok \in ReportOutcomes(batch) :
          IF ok
          THEN /\ NoFault
               /\ events' = events \o batch
               /\ Goto(p, "s_reportDuplicate")
               /\ UNCHANGED loc
          ELSE /\ Fault
               /\ Return(p, "Internal", Result(JobResponseItems(loc[p].results)))
               /\ loc' = [loc EXCEPT ![p].reportErr = TRUE]
               /\ UNCHANGED events
  /\ UNCHANGED <<queues, jobs, nextId, now, config, req, after>>

\* reportDuplicateDetected for the duplicates.
SubmitReportDuplicate(p) ==
  /\ pc[p] = "s_reportDuplicate"
  /\ LET batch == EventsFor("duplicate_found", doubleSubmits(loc[p].jobs, loc[p].results), p)
     IN \E ok \in ReportOutcomes(batch) :
          IF ok
          THEN /\ NoFault
               /\ events' = events \o batch
               /\ Goto(p, "s_reportQueued")
               /\ UNCHANGED loc
          ELSE /\ Fault
               /\ Return(p, "Internal", Result(JobResponseItems(loc[p].results)))
               /\ loc' = [loc EXCEPT ![p].reportErr = TRUE]
               /\ UNCHANGED events
  /\ UNCHANGED <<queues, jobs, nextId, now, config, req, after>>

\* reportQueued for the created jobs, then the final status.
SubmitReportQueued(p) ==
  /\ pc[p] = "s_reportQueued"
  /\ LET batch == EventsFor("queued", createdJobs(loc[p].jobs, loc[p].results), p)
     IN \E ok \in ReportOutcomes(batch) :
          IF ok
          THEN /\ NoFault
               /\ events' = events \o batch
               /\ IF Len(jobFailures(loc[p].jobs, loc[p].results)) > 0
                  THEN Return(p, "Internal", Result(JobResponseItems(loc[p].results)))
                  ELSE Return(p, "OK", Result(JobResponseItems(loc[p].results)))
               /\ UNCHANGED loc
          ELSE /\ Fault
               /\ Return(p, "Internal", Result(JobResponseItems(loc[p].results)))
               /\ loc' = [loc EXCEPT ![p].reportErr = TRUE]
               /\ UNCHANGED events
  /\ UNCHANGED <<queues, jobs, nextId, now, config, req, after>>

SubmitJobs(p) ==
  \/ SubmitGetQueue(p)
  \/ SubmitCreateQueue(p)
  \/ SubmitAuthorize(p)
  \/ SubmitCreateJobs(p)
  \/ SubmitFeasibility(p)
  \/ SubmitReportSubmitted(p)
  \/ SubmitAddJobs(p)
  \/ SubmitReportFailedAll(p)
  \/ SubmitReportFailed(p)
  \/ SubmitReportDuplicate(p)
  \/ SubmitReportQueued(p)

\* ------------------------------------------------------------ CancelJobs
BySet(p) == req[p].jobId = 0 /\ req[p].jobSetId # "" /\ req[p].queue # ""

CancellationResult(ids) == [cancelledIds |-> ids]

\* JobRepository.GetExistingJobsByIds: the stored jobs among ids, in the order of ids.
GetExistingJobsByIds(store, ids) ==
  LET Exists(id) == \E j \in store : j.id = id
      found == SelectSeq(ids, Exists)
  IN [k \in 1..Len(found) |-> CHOOSE j \in store : j.id = found[k]]

\* The ids of the stored jobs of the queue, whatever their job set.
GetActiveJobIdsOfQueue(store, queue, jobSetId) ==
  SeqOfSet({j.id : j \in {x \in store : x.queue = queue}})

\* JobRepository.GetActiveJobIds: the ids of the stored jobs of the job set.
GetActiveJobIds(store, queue, jobSetId) ==
  SeqOfSet({j.id : j \in {x \in store : x.queue = queue /\ x.jobSetId = jobSetId}})

\* CancelJobs with neither a job id nor both queue and job set id.
CancelInvalid(p) ==
  /\ pc[p] = "c_dispatch"
  /\ req[p].jobId = 0
  /\ ~BySet(p)
  /\ Return(p, "InvalidArgument", Nil)
  /\ UNCHANGED <<shared, now, config, req, loc, after, faults>>

\* cancelJobsById: fetch the one job.
CancelGetById(p) ==
  /\ pc[p] = "c_dispatch"
  /\ req[p].jobId # 0
  /\ \/ /\ Fault
        /\ Return(p, "Unavailable", Nil)
        /\ UNCHANGED loc
     \/ /\ NoFault
        /\ LET found == GetExistingJobsByIds(jobs, <<req[p].jobId>>)
           IN IF Len(found) # 1
              THEN /\ Return(p, "Internal", Nil)
                   /\ UNCHANGED loc
              ELSE /\ loc' = [loc EXCEPT ![p].jobs = found]
                   /\ Goto(p, "c_perms")
  /\ UNCHANGED <<shared, now, config, req, after>>

\* cancelJobsByQueueAndSet: fetch the active ids and split them into batches.
CancelGetActiveIds(p) ==
  /\ pc[p] = "c_dispatch"
  /\ BySet(p)
  /\ \/ /\ Fault
        /\ Return(p, "Unavailable", Nil)
        /\ UNCHANGED loc
     \/ /\ NoFault
        /\ LET ids == GetActiveJobIds(jobs, req[p].queue, req[p].jobSetId)
           IN IF Len(ids) = 0
              THEN /\ Return(p, "OK", Result(CancellationResult(<<>>)))
                   /\ UNCHANGED loc
              ELSE /\ loc' = [loc EXCEPT ![p].ids = ids]
                   /\ Goto(p, "c_getBatch")
  /\ UNCHANGED <<shared, now, config, req, after>>

Batches(p) == Batch(loc[p].ids, batchSize)

\* cancelJobsByQueueAndSet: fetch the jobs of the next batch.
CancelGetBatch(p) ==
  /\ pc[p] = "c_getBatch"
  /\ \/ /\ Fault
        /\ Return(p, "Internal", Result(CancellationResult(loc[p].cancelledIds)))
        /\ UNCHANGED loc
     \/ /\ NoFault
        /\ loc' = [loc EXCEPT ![p].jobs =
                     GetExistingJobsByIds(jobs, Batches(p)[loc[p].bi + 1])]
        /\ Goto(p, "c_perms")
  /\ UNCHANGED <<shared, now, config, req, after>>

\* How the caller of cancelJobs maps its error: a permission error hides the
\* result; any other error of the set path carries the ids of earlier batches.
CancelError(p, permission) ==
  IF permission THEN Return(p, "PermissionDenied", Nil)
  ELSE IF BySet(p) THEN Return(p, "Unavailable", Result(CancellationResult(loc[p].cancelledIds)))
  ELSE Return(p, "Unavailable", Nil)

QueuesOf(js) == {js[k].queue : k \in 1..Len(js)}

\* checkCancelPerms: for each distinct queue of the jobs, load it and run the two-tier check.
CancelCheckPerms(p) ==
  /\ pc[p] = "c_perms"
  /\ \/ /\ QueuesOf(loc[p].jobs) # {}
        /\ Fault
        /\ CancelError(p, FALSE)
        /\ UNCHANGED loc
     \/ /\ NoFault
        /\ IF \E n \in QueuesOf(loc[p].jobs) : queues[n] = NoQueue
           THEN /\ CancelError(p, FALSE)
                /\ UNCHANGED loc
           ELSE IF QueuesOf(loc[p].jobs) = {}
           THEN /\ Goto(p, "c_cancelling")
                /\ UNCHANGED loc
           ELSE \E n \in QueuesOf(loc[p].jobs) :
                  LET a == Authorize(Principal(p), queues[n], "cancel_any_jobs", "cancel")
                  IN /\ loc' = [loc EXCEPT ![p].q = queues[n], ![p].auth = a]
                     /\ IF a = "denied"
                        THEN CancelError(p, TRUE)
                        ELSE Goto(p, "c_cancelling")
  /\ UNCHANGED <<shared, now, config, req, after>>

\* reportJobsCancelling: a cancelling event for every job.
CancelReportCancelling(p) ==
  /\ pc[p] = "c_cancelling"
  /\ LET batch == EventsFor("cancelling", loc[p].jobs, p)
     IN \E ok \in ReportOutcomes(batch) :
          IF ok
          THEN /\ NoFault
               /\ events' = events \o batch
               /\ Goto(p, "c_delete")
          ELSE /\ Fault
               /\ CancelError(p, FALSE)
               /\ UNCHANGED events
  /\ UNCHANGED <<queues, jobs, nextId, now, config, req, loc, after>>

\* The loop over the deletion result with its test of the error dropped.
DeletedAll(js, failedIds) == js

\* The jobs of js delete_jobs reported no error for, in order.
Deleted(js, failedIds) ==
  LET Ok(j) == j.id \notin failedIds
  IN SelectSeq(js, Ok)

\* JobRepository.DeleteJobs: the store without the jobs of js it did not fail for.
DeleteJobs(store, js, failedIds) ==
  {j \in store : \A k \in 1..Len(js) : j.id = js[k].id => j.id \in failedIds}

IdsOf(js) == [k \in 1..Len(js) |-> js[k].id]

\* The orders in which ranging over the deletion result (a map) may visit ids.
RangeOrders(ids) == {o \in [1..Len(ids) -> Range(ids)] : Range(o) = Range(ids)}

\* jobRepository.DeleteJobs: fails as a whole, or deletes each job unless it
\* fails for that job; cancelJobs then collects the deleted ids from the map.
CancelDeleteJobs(p) ==
  /\ pc[p] = "c_delete"
  /\ \/ /\ Len(loc[p].jobs) > 0
        /\ Fault
        /\ CancelError(p, FALSE)
        /\ UNCHANGED <<loc, jobs>>
     \/ \E failedIds \in SUBSET Range(IdsOf(loc[p].jobs)) :
          /\ IF failedIds = {} THEN NoFault ELSE Fault
          /\ jobs' = DeleteJobs(jobs, loc[p].jobs, failedIds)
          /\ \E order \in RangeOrders(IdsOf(Deleted(loc[p].jobs, failedIds))) :
               loc' = [loc EXCEPT ![p].batchIds = order,
                                  ![p].deleted = @ \cup {j.id : j \in jobs \ jobs'}]
          /\ Goto(p, "c_cancelled")
  /\ UNCHANGED <<queues, events, nextId, now, config, req, after>>

\* The set path after a batch, without its look at the deadline.
AfterBatchNoDeadline(p, cancelled) ==
  IF loc[p].bi + 1 = Len(Batches(p))
  THEN Return(p, "OK", Result(CancellationResult(cancelled)))
  ELSE Goto(p, "c_getBatch")

\* The set path with no deadline check after the last batch.
AfterBatchUnlessLast(p, cancelled) ==
  IF loc[p].bi + 1 = Len(Batches(p))
  THEN Return(p, "OK", Result(CancellationResult(cancelled)))
  ELSE IF CloseToDeadline(req[p].deadline, now, Second)
  THEN Return(p, "DeadlineExceeded", Result(CancellationResult(cancelled)))
  ELSE Goto(p, "c_getBatch")

\* The set path after a batch: what is returned, if anything.
AfterBatch(p, cancelled) ==
  IF CloseToDeadline(req[p].deadline, now, Second)
  THEN Return(p, "DeadlineExceeded", Result(CancellationResult(cancelled)))
  ELSE IF loc[p].bi + 1 = Len(Batches(p))
  THEN Return(p, "OK", Result(CancellationResult(cancelled)))
  ELSE Goto(p, "c_getBatch")

\* reportJobsCancelled for the deleted jobs; then back in the caller: the
\* single-id path returns, the set path appends the ids and checks the deadline.
CancelReportCancelled(p) ==
  /\ pc[p] = "c_cancelled"
  /\ LET done == [k \in 1..Len(loc[p].batchIds) |-> [id |-> loc[p].batchIds[k]]]
         batch == EventsFor("cancelled", done, p)
     IN \E ok \in ReportOutcomes(batch) :
          IF ok
          THEN /\ NoFault
               /\ events' = events \o batch
               /\ IF BySet(p)
                  THEN /\ loc' = [loc EXCEPT ![p].cancelledIds = @ \o loc[p].batchIds,
                                             ![p].bi = @ + 1]
                       /\ AfterBatch(p, loc[p].cancelledIds \o loc[p].batchIds)
                  ELSE /\ Return(p, "OK", Result(CancellationResult(loc[p].batchIds)))
                       /\ UNCHANGED loc
          ELSE /\ Fault
               /\ CancelError(p, FALSE)
               /\ UNCHANGED <<events, loc>>
  /\ UNCHANGED <<queues, jobs, nextId, now, config, req, after>>

CancelJobs(p) ==
  \/ CancelInvalid(p)
  \/ CancelGetById(p)
  \/ CancelGetActiveIds(p)
  \/ CancelGetBatch(p)
  \/ CancelCheckPerms(p)
  \/ CancelReportCancelling(p)
  \/ CancelDeleteJobs(p)
  \/ CancelReportCancelled(p)

\* Time passes.
Tick ==
  /\ now < MaxTime
  /\ \E p \in Procs : req[p].deadline # NoDeadline /\ pc[p] \notin {"idle", "done", "off"}
  /\ now' = now + 1
  /\ UNCHANGED <<shared, config, pc, req, loc, ret, after, faults>>

\* ------------------------------------------------------ ReprioritizeJobs
\* Fetch the jobs by id.
ReprioGetByIds(p) ==
  /\ pc[p] = "r_fetch"
  /\ Len(req[p].jobIds) > 0
  /\ \/ /\ Fault
        /\ Return(p, "Unavailable", Nil)
        /\ UNCHANGED loc
     \/ /\ NoFault
        /\ loc' = [loc EXCEPT ![p].jobs = GetExistingJobsByIds(jobs, req[p].jobIds)]
        /\ Goto(p, "r_perms")
  /\ UNCHANGED <<shared, now, config, req, after>>

\* Fetch the active ids of the job set.
ReprioGetActiveIds(p) ==
  /\ pc[p] = "r_fetch"
  /\ Len(req[p].jobIds) = 0
  /\ req[p].queue # "" /\ req[p].jobSetId # ""
  /\ \/ /\ Fault
        /\ Return(p, "Unavailable", Nil)
        /\ UNCHANGED loc
     \/ /\ NoFault
        /\ loc' = [loc EXCEPT ![p].ids = GetActiveJobIds(jobs, req[p].queue, req[p].jobSetId)]
        /\ Goto(p, "r_getJobs")
  /\ UNCHANGED <<shared, now, config, req, after>>

\* Fetch the jobs of the job set.
ReprioGetSetJobs(p) ==
  /\ pc[p] = "r_getJobs"
  /\ \/ /\ Fault
        /\ Return(p, "Unavailable", Nil)
        /\ UNCHANGED loc
     \/ /\ NoFault
        /\ loc' = [loc EXCEPT ![p].jobs = GetExistingJobsByIds(jobs, loc[p].ids)]
        /\ Goto(p, "r_perms")
  /\ UNCHANGED <<shared, now, config, req, after>>

\* ReprioritizeJobs refusing a request that names no job and no job set.
ReprioCheckPermsOrInvalid(p) ==
  /\ \/ pc[p] = "r_perms"
     \/ /\ pc[p] = "r_fetch"
        /\ Len(req[p].jobIds) = 0
        /\ ~(req[p].queue # "" /\ req[p].jobSetId # "")
  /\ \/ /\ QueuesOf(loc[p].jobs) # {}
        /\ Fault
        /\ Return(p, "Unavailable", Nil)
        /\ UNCHANGED loc
     \/ /\ NoFault
        /\ IF \E n \in QueuesOf(loc[p].jobs) : queues[n] = NoQueue
           THEN /\ Return(p, "Unavailable", Nil)
                /\ UNCHANGED loc
           ELSE IF pc[p] = "r_fetch"
           THEN /\ Return(p, "InvalidArgument", Nil)
                /\ UNCHANGED loc
           ELSE IF QueuesOf(loc[p].jobs) = {}
           THEN /\ Goto(p, "r_reprioritizing")
                /\ UNCHANGED loc
           ELSE \E n \in QueuesOf(loc[p].jobs) :
                  LET a == Authorize(Principal(p), queues[n],
                                     "reprioritize_any_jobs", "reprioritize")
                  IN /\ loc' = [loc EXCEPT ![p].q = queues[n], ![p].auth = a]
                     /\ IF a = "denied"
                        THEN Return(p, "PermissionDenied", Nil)
                        ELSE Goto(p, "r_reprioritizing")
  /\ UNCHANGED <<shared, now, config, req, after>>

\* checkReprioritizePerms; without job ids and without queue and job set
\* the request comes here with no jobs.
ReprioCheckPerms(p) ==
  /\ \/ pc[p] = "r_perms"
     \/ /\ pc[p] = "r_fetch"
        /\ Len(req[p].jobIds) = 0
        /\ ~(req[p].queue # "" /\ req[p].jobSetId # "")
  /\ \/ /\ QueuesOf(loc[p].jobs) # {}
        /\ Fault
        /\ Return(p, "Unavailable", Nil)
        /\ UNCHANGED loc
     \/ /\ NoFault
        /\ IF \E n \in QueuesOf(loc[p].jobs) : queues[n] = NoQueue
           THEN /\ Return(p, "Unavailable", Nil)
                /\ UNCHANGED loc
           ELSE IF QueuesOf(loc[p].jobs) = {}
           THEN /\ Goto(p, "r_reprioritizing")
                /\ UNCHANGED loc
           ELSE \E n \in QueuesOf(loc[p].jobs) :
                  LET a == Authorize(Principal(p), queues[n],
                                     "reprioritize_any_jobs", "reprioritize")
                  IN /\ loc' = [loc EXCEPT ![p].q = queues[n], ![p].auth = a]
                     /\ IF a = "denied"
                        THEN Return(p, "PermissionDenied", Nil)
                        ELSE Goto(p, "r_reprioritizing")
  /\ UNCHANGED <<shared, now, config, req, after>>

\* reportJobsReprioritizing with its error ignored.
ReprioReportReprioritizingUnchecked(p) ==
  /\ pc[p] = "r_reprioritizing"
  /\ LET batch == EventsFor("reprioritizing", loc[p].jobs, p)
     IN \E ok \in ReportOutcomes(batch) :
          /\ IF ok THEN NoFault /\ events' = events \o batch
                   ELSE Fault /\ UNCHANGED events
          /\ Goto(p, "r_read")
  /\ UNCHANGED <<queues, jobs, nextId, now, config, req, loc, after>>

\* reportJobsReprioritizing: a reprioritizing event for every job.
ReprioReportReprioritizing(p) ==
  /\ pc[p] = "r_reprioritizing"
  /\ LET batch == EventsFor("reprioritizing", loc[p].jobs, p)
     IN \E ok \in ReportOutcomes(batch) :
          IF ok
          THEN /\ NoFault
               /\ events' = events \o batch
               /\ Goto(p, "r_read")
               /\ UNCHANGED loc
          ELSE /\ Fault
               /\ Return(p, "Unavailable", Nil)
               /\ loc' = [loc EXCEPT ![p].reportErr = TRUE]
               /\ UNCHANGED events
  /\ UNCHANGED <<queues, jobs, nextId, now, config, req, after>>

\* The result map of reprioritizeJobs: job id -> "" or the error.
ReprioResults(ids, found, error) ==
  [id \in Range(ids) |-> IF id \notin Range(found) THEN "not found" ELSE error]

\* JobRepository.UpdateJobs, first half: fetch the jobs under the optimistic guard.
ReprioUpdateRead(p) ==
  /\ pc[p] = "r_read"
  /\ \/ /\ Len(loc[p].jobs) > 0
        /\ Fault
        /\ Return(p, "Unavailable", Nil)
        /\ UNCHANGED loc
     \/ /\ NoFault
        /\ loc' = [loc EXCEPT ![p].snapshot = GetExistingJobsByIds(jobs, IdsOf(loc[p].jobs))]
        /\ Goto(p, "r_updated")
  /\ UNCHANGED <<shared, now, config, req, after>>

\* The mutator giving up the request when reportJobsUpdated fails.
ReprioReportUpdatedOrAbort(p) ==
  /\ pc[p] = "r_updated"
  /\ LET batch == EventsFor("updated", loc[p].snapshot, p)
     IN \E ok \in ReportOutcomes(batch) :
          IF ok
          THEN /\ NoFault
               /\ events' = events \o batch
               /\ Goto(p, "r_reprioritized")
               /\ UNCHANGED loc
          ELSE /\ Fault
               /\ Return(p, "Unavailable", Nil)
               /\ loc' = [loc EXCEPT ![p].reportErr = TRUE]
               /\ UNCHANGED events
  /\ UNCHANGED <<queues, jobs, nextId, now, config, req, after>>

\* The mutator: reportJobsUpdated for the fetched jobs; a failure is only logged.
ReprioReportUpdated(p) ==
  /\ pc[p] = "r_updated"
  /\ LET batch == EventsFor("updated", loc[p].snapshot, p)
     IN \E ok \in ReportOutcomes(batch) :
          IF ok
          THEN /\ NoFault
               /\ events' = events \o batch
               /\ Goto(p, "r_reprioritized")
               /\ UNCHANGED loc
          ELSE /\ Fault
               /\ Goto(p, "r_commit")
               /\ loc' = [loc EXCEPT ![p].reportErr = TRUE]
               /\ UNCHANGED events
  /\ UNCHANGED <<queues, jobs, nextId, now, config, req, after>>

\* The mutator without its second report.
ReprioSkipReprioritized(p) ==
  /\ pc[p] = "r_reprioritized"
  /\ Goto(p, "r_commit")
  /\ UNCHANGED <<shared, now, config, req, loc, after, faults>>

\* The mutator: reportJobsReprioritized; a failure is only logged.
ReprioReportReprioritized(p) ==
  /\ pc[p] = "r_reprioritized"
  /\ LET batch == EventsFor("reprioritized", loc[p].snapshot, p)
     IN \E ok \in ReportOutcomes(batch) :
          IF ok
          THEN /\ NoFault
               /\ events' = events \o batch
               /\ UNCHANGED loc
          ELSE /\ Fault
               /\ loc' = [loc EXCEPT ![p].reportErr = TRUE]
               /\ UNCHANGED events
  /\ Goto(p, "r_commit")
  /\ UNCHANGED <<queues, jobs, nextId, now, config, req, after>>

\* The optimistic guard: no fetched job was changed or deleted since the fetch.
GuardHolds(store, snapshot) == \A k \in 1..Len(snapshot) : snapshot[k] \in store

\* The store with the new priority written to every job.
WriteMutatedAll(store, snapshot, newPriority) ==
  {[j EXCEPT !.priority = newPriority] : j \in store}

\* The store with the mutated jobs written.
WriteMutated(store, snapshot, newPriority) ==
  {j \in store : j \notin Range(snapshot)}
    \cup {[snapshot[k] EXCEPT !.priority = newPriority] : k \in 1..Len(snapshot)}

\* JobRepository.UpdateJobs, second half: commit under the guard, retry, or give up.
ReprioUpdateCommit(p) ==
  /\ pc[p] = "r_commit"
  /\ IF GuardHolds(jobs, loc[p].snapshot)
     THEN /\ jobs' = WriteMutated(jobs, loc[p].snapshot, req[p].newPriority)
          /\ loc' = [loc EXCEPT ![p].update = "committed"]
          /\ Return(p, "OK", Result(ReprioResults(IdsOf(loc[p].jobs), IdsOf(loc[p].snapshot), "")))
     ELSE IF loc[p].tries < MaxRetries
     THEN /\ loc' = [loc EXCEPT ![p].tries = @ + 1]
          /\ Goto(p, "r_read")
          /\ UNCHANGED jobs
     ELSE /\ loc' = [loc EXCEPT ![p].update = "rejected"]
          /\ Return(p, "OK", Result(ReprioResults(IdsOf(loc[p].jobs), IdsOf(loc[p].snapshot),
                                                  "contention")))
          /\ UNCHANGED jobs
  /\ UNCHANGED <<queues, events, nextId, now, config, req, after, faults>>

ReprioritizeJobs(p) ==
  \/ ReprioGetByIds(p)
  \/ ReprioGetActiveIds(p)
  \/ ReprioGetSetJobs(p)
  \/ ReprioCheckPerms(p)
  \/ ReprioReportReprioritizing(p)
  \/ ReprioUpdateRead(p)
  \/ ReprioReportUpdated(p)
  \/ ReprioReportReprioritized(p)
  \/ ReprioUpdateCommit(p)

\* ---------------------------------------------------------- GetQueueInfo
\* queueRepository.GetQueue; errors.Is against a nil *ErrQueueNotFound
\* matches no error, so a missing queue comes back as the bare error.
InfoGetQueue(p) ==
  /\ pc[p] = "g_getQueue"
  /\ \/ /\ Fault
        /\ Return(p, "Unknown", Nil)
        /\ UNCHANGED loc
     \/ /\ NoFault
        /\ IF queues[req[p].queue] = NoQueue
           THEN /\ Return(p, "Unknown", Nil)
                /\ UNCHANGED loc
           ELSE /\ loc' = [loc EXCEPT ![p].q = queues[req[p].queue]]
                /\ Goto(p, "g_auth")
  /\ UNCHANGED <<shared, now, config, req, after>>

\* The two-tier check for verb watch.
InfoAuthorize(p) ==
  /\ pc[p] = "g_auth"
  /\ LET a == Authorize(Principal(p), loc[p].q, "watch_all_events", "watch")
     IN /\ loc' = [loc EXCEPT ![p].auth = a]
        /\ IF a = "denied"
           THEN Return(p, "PermissionDenied", Nil)
           ELSE Goto(p, "g_jobSets")
  /\ UNCHANGED <<shared, now, config, req, after, faults>>

\* jobRepository.GetQueueActiveJobSets.
InfoGetJobSets(p) ==
  /\ pc[p] = "g_jobSets"
  /\ \/ /\ Fault
        /\ Return(p, "Unavailable", Nil)
     \/ /\ NoFault
        /\ Return(p, "OK", Result([name |-> req[p].queue,
                                   activeJobSets |-> {j.jobSetId : j \in {x \in jobs :
                                                        x.queue = req[p].queue}}]))
  /\ UNCHANGED <<shared, now, config, req, loc, after>>

GetQueueInfo(p) ==
  \/ InfoGetQueue(p)
  \/ InfoAuthorize(p)
  \/ InfoGetJobSets(p)

\* ------------------------------------- CreateQueue, UpdateQueue, DeleteQueue
\* queue.NewQueue accepts the queue: it has a name and a positive priority factor.
ValidQueue(in) == in.name # "" /\ in.priorityFactor > 0

\* A queue built without the binding of its owners.
NewQueueWithoutOwners(in) ==
  [name |-> in.name, priorityFactor |-> in.priorityFactor, permissions |-> in.permissions]

\* queue.NewQueue: the owners become a permission binding ahead of the listed ones.
NewQueue(in) ==
  [name |-> in.name,
   priorityFactor |-> in.priorityFactor,
   permissions |-> (IF in.userOwners # {} \/ in.groupOwners # {}
                    THEN <<NewPermissionsFromOwners(in.userOwners, in.groupOwners)>>
                    ELSE <<>>) \o in.permissions]

\* The caller made owner whatever the request lists.
WithCallerAsOwner(in, pr) == [in EXCEPT !.userOwners = {pr.name}]

\* CreateQueue: without user owners the caller becomes the owner.
WithDefaultOwner(in, pr) ==
  IF in.userOwners = {} THEN [in EXCEPT !.userOwners = {pr.name}] ELSE in

\* CreateQueue: the permission check, the validation and queueRepository.CreateQueue.
CreateQueue(p) ==
  /\ pc[p] = "q_create"
  /\ IF ~checkPermission(Principal(p), "create_queue")
     THEN Return(p, "PermissionDenied", Nil) /\ NoFault /\ UNCHANGED queues
     ELSE IF ~ValidQueue(WithDefaultOwner(req[p].newQueue, Principal(p)))
     THEN Return(p, "InvalidArgument", Nil) /\ NoFault /\ UNCHANGED queues
     ELSE \/ /\ Fault
             /\ Return(p, "Unavailable", Nil)
             /\ UNCHANGED queues
          \/ /\ NoFault
             /\ IF queues[req[p].newQueue.name] # NoQueue
                THEN Return(p, "AlreadyExists", Nil) /\ UNCHANGED queues
                ELSE /\ queues' = [queues EXCEPT ![req[p].newQueue.name] =
                                     NewQueue(WithDefaultOwner(req[p].newQueue, Principal(p)))]
                     /\ Return(p, "OK", Result("empty"))
  /\ UNCHANGED <<jobs, events, nextId, now, config, req, loc, after>>

\* UpdateQueue: the permission check, the validation and queueRepository.UpdateQueue.
UpdateQueue(p) ==
  /\ pc[p] = "q_update"
  /\ IF ~checkPermission(Principal(p), "create_queue")
     THEN Return(p, "PermissionDenied", Nil) /\ NoFault /\ UNCHANGED queues
     ELSE IF ~ValidQueue(req[p].newQueue)
     THEN Return(p, "InvalidArgument", Nil) /\ NoFault /\ UNCHANGED queues
     ELSE \/ /\ Fault
             /\ Return(p, "Unavailable", Nil)
             /\ UNCHANGED queues
          \/ /\ NoFault
             /\ IF queues[req[p].newQueue.name] = NoQueue
                THEN Return(p, "NotFound", Nil) /\ UNCHANGED queues
                ELSE /\ queues' = [queues EXCEPT ![req[p].newQueue.name] = NewQueue(req[p].newQueue)]
                     /\ Return(p, "OK", Result("empty"))
  /\ UNCHANGED <<jobs, events, nextId, now, config, req, loc, after>>

\* JobRepository.GetQueueActiveJobSets: the job sets of the queue with a stored job.
GetQueueActiveJobSets(store, name) == {j.jobSetId : j \in {x \in store : x.queue = name}}

\* DeleteQueue without its look at the active job sets.
DeleteQueueUnchecked(p) ==
  /\ pc[p] = "d_activeSets"
  /\ IF ~checkPermission(Principal(p), "delete_queue")
     THEN Return(p, "PermissionDenied", Nil) /\ NoFault
     ELSE \/ /\ Fault
             /\ Return(p, "InvalidArgument", Nil)
          \/ /\ NoFault
             /\ Goto(p, "d_delete")
  /\ UNCHANGED <<shared, now, config, req, loc, after>>

\* DeleteQueue: the permission check, then the active job sets of the queue.
DeleteQueueCheck(p) ==
  /\ pc[p] = "d_activeSets"
  /\ IF ~checkPermission(Principal(p), "delete_queue")
     THEN Return(p, "PermissionDenied", Nil) /\ NoFault
     ELSE \/ /\ Fault
             /\ Return(p, "InvalidArgument", Nil)
          \/ /\ NoFault
             /\ IF GetQueueActiveJobSets(jobs, req[p].queue) # {}
                THEN Return(p, "FailedPrecondition", Nil)
                ELSE Goto(p, "d_delete")
  /\ UNCHANGED <<shared, now, config, req, loc, after>>

\* DeleteQueue: queueRepository.DeleteQueue removes the queue, if there is one.
DeleteQueueWrite(p) ==
  /\ pc[p] = "d_delete"
  /\ \/ /\ Fault
        /\ Return(p, "InvalidArgument", Nil)
        /\ UNCHANGED queues
     \/ /\ NoFault
        /\ queues' = [queues EXCEPT ![req[p].queue] = NoQueue]
        /\ Return(p, "OK", Result("empty"))
  /\ UNCHANGED <<jobs, events, nextId, now, config, req, loc, after>>

DeleteQueue(p) ==
  \/ DeleteQueueCheck(p)
  \/ DeleteQueueWrite(p)

\* queue.Queue.ToAPI: the api.Queue with the fields the stored queue holds.
ToAPI(q) ==
  [name |-> q.name, priorityFactor |-> q.priorityFactor,
   userOwners |-> {}, groupOwners |-> {}, permissions |-> q.permissions]

\* GetQueue: queueRepository.GetQueue, then the conversion of what it found.
GetQueue(p) ==
  /\ pc[p] = "gq_get"
  /\ \/ /\ Fault
        /\ Return(p, "Unavailable", Nil)
     \/ /\ NoFault
        /\ IF queues[req[p].queue] = NoQueue
           THEN Return(p, "NotFound", Nil)
           ELSE Return(p, "OK", Result(ToAPI(queues[req[p].queue])))
  /\ UNCHANGED <<shared, now, config, req, loc, after>>

\* A caller of the permission checker asks whether the principal owns obj.
CallUserOwns(p) ==
  /\ pc[p] = "uo_call"
  /\ Return(p, "OK", Result(UserOwns(Principal(p), req[p].obj)))
  /\ UNCHANGED <<shared, now, config, req, loc, after, faults>>

\* ------------------------------------------------------------ initial states
SeqsUpTo(S, n) == UNION {[1..k -> S] : k \in 0..n}

\* Queues the registry may hold for q1 before the first request.
QueueChoices ==
  { [name |-> "q1", priorityFactor |-> 1, permissions |-> perms] : perms \in
      { <<>>,
        <<[subjects |-> {UserSubject("alice")}, verbs |-> {"submit", "cancel"}]>>,
        <<[subjects |-> {GroupSubject("devs"), GroupSubject("admins")},
           verbs |-> {"submit", "reprioritize"}],
          [subjects |-> {UserSubject("bob")}, verbs |-> {"cancel", "watch"}]>> } }

\* A pod spec of one container that names no resource and no toleration.
PlainPod ==
  [containers |-> <<[requests |-> NoResources, limits |-> NoResources]>>, tolerations |-> <<>>]

Item(clientId, podSpec, podSpecs, valid, cpu) ==
  [clientId |-> clientId, podSpec |-> podSpec, podSpecs |-> podSpecs,
   valid |-> valid, cpu |-> cpu, priority |-> 1, pod |-> PlainPod, ingress |-> <<>>,
   labels |-> <<>>, annotations |-> <<>>]

GoodItems == {Item("c1", TRUE, 0, TRUE, 1), Item(NoClient, FALSE, 1, TRUE, 2)}

\* Items of every shape: both pod_spec and pod_specs, neither, failing
\* validation, fitting on no cluster.
ItemChoices ==
  GoodItems \cup {Item("c1", TRUE, 1, TRUE, 1), Item("c1", FALSE, 0, TRUE, 1),
                  Item("c1", TRUE, 0, FALSE, 1), Item("c1", TRUE, 0, TRUE, 3)}

\* An Owned object: its user owners and its group owners, as listed.
Owned(userOwners, groupOwners) == [userOwners |-> userOwners, groupOwners |-> groupOwners]

NoOwned == Owned(<<>>, <<>>)

\* An api.Queue of a CreateQueue or UpdateQueue request.
ApiQueue(name, priorityFactor, userOwners) ==
  [name |-> name, priorityFactor |-> priorityFactor, userOwners |-> userOwners,
   groupOwners |-> {}, permissions |-> <<>>]

Request(op, pr, q, js) ==
  [op |-> op, principal |-> pr, queue |-> q, jobSetId |-> js, items |-> <<>>,
   jobId |-> 0, jobIds |-> <<>>, newPriority |-> 0, deadline |-> NoDeadline,
   newQueue |-> ApiQueue("", 0, {}), obj |-> NoOwned]

SubmitRequests(prs, names, sets, items) ==
  {[Request("submit", pr, q, js) EXCEPT !.items = it] :
     pr \in prs, q \in names, js \in sets, it \in items}

NoRequest == Request("none", "bob", "", "")

EmptyRegistry == [n \in QueueNames |-> NoQueue]

InitServer ==
  /\ now = 0
  /\ loc = [p \in Procs |-> InitLoc]
  /\ ret = [p \in Procs |-> Running]
  /\ after = [p \in Procs |-> {}]

PrincipalNames == {pr.name : pr \in Principals}

\* A job stored by an earlier request.
StoredJob(i) ==
  [id |-> i, clientId |-> NoClient, queue |-> "q1", jobSetId |-> "js1",
   priority |-> 1, owner |-> "root", groups |-> {}, cpu |-> 1,
   pod |-> DefaultedPodSpec(PlainPod), ingress |-> <<>>,
   labels |-> <<>>, annotations |-> <<>>]

\* The events the earlier requests left: submitted and queued for each stored job.
StoredEvents(n) ==
  Flatten([i \in 1..n |-> <<[type |-> "submitted", jobId |-> i, by |-> 0],
                            [type |-> "queued", jobId |-> i, by |-> 0]>>])

\* The store holds n jobs of job set js1 in queue q1.
InitStore(n) ==
  /\ InitServer
  /\ jobs = {StoredJob(i) : i \in 1..n}
  /\ events = StoredEvents(n)
  /\ nextId = n + 1
  /\ queues \in IF n = 0
                THEN {EmptyRegistry} \cup {[EmptyRegistry EXCEPT !["q1"] = q] : q \in QueueChoices}
                ELSE {[EmptyRegistry EXCEPT !["q1"] = q] : q \in QueueChoices}

Single(r) ==
  /\ pc = [p \in Procs |-> IF p = 1 THEN "idle" ELSE "off"]
  /\ req = [p \in Procs |-> IF p = 1 THEN r ELSE NoRequest]

\* One SubmitJobs request of any shape, by any principal.
InitSubmit ==
  /\ InitStore(0)
  /\ autoCreate \in BOOLEAN
  /\ batchSize = 1
  /\ faults \in 0..MaxFaults
  /\ \E r \in SubmitRequests(PrincipalNames, QueueNames, JobSetIds,
                             SeqsUpTo(ItemChoices, MaxItems)) : Single(r)

CancelRequests(prs, n) ==
  {[Request("cancel", pr, "", "") EXCEPT !.jobId = id, !.deadline = d] :
     pr \in prs, id \in 1..(n + 1), d \in {NoDeadline}}
  \cup {[Request("cancel", pr, q, js) EXCEPT !.deadline = d] :
     pr \in prs, q \in QueueNames, js \in JobSetIds, d \in {NoDeadline, Second, Second + 1}}

\* One CancelJobs request.
InitCancel ==
  /\ \E n \in 0..MaxStored :
       /\ InitStore(n)
       /\ \E r \in CancelRequests(PrincipalNames, n) : Single(r)
  /\ autoCreate = FALSE
  /\ batchSize \in {1, 2}
  /\ faults \in 0..MaxFaults

ReprioRequests(prs, n) ==
  {[Request("reprioritize", pr, q, js) EXCEPT !.jobIds = ids, !.newPriority = 2] :
     pr \in prs, q \in QueueNames, js \in JobSetIds,
     ids \in {<<>>} \cup {<<i>> : i \in 1..(n + 1)} \cup {<<1, 2>>}}

\* One ReprioritizeJobs request.
InitReprio ==
  /\ \E n \in 0..MaxStored :
       /\ InitStore(n)
       /\ \E r \in ReprioRequests(PrincipalNames, n) : Single(r)
  /\ autoCreate = FALSE
  /\ batchSize = 1
  /\ faults \in 0..MaxFaults

\* One GetQueueInfo request.
InitInfo ==
  /\ \E n \in 0..MaxStored : InitStore(n)
  /\ \E pr \in PrincipalNames : Single(Request("queueInfo", pr, "q1", ""))
  /\ autoCreate = FALSE
  /\ batchSize = 1
  /\ faults \in 0..MaxFaults

QueueRequests(prs) ==
  {[Request(op, pr, "", "") EXCEPT !.newQueue = ApiQueue(n, f, owners)] :
     op \in {"createQueue", "updateQueue"}, pr \in prs, n \in QueueNames,
     f \in {0, 1}, owners \in {{}, {"alice"}}}
  \cup {Request("deleteQueue", pr, "q1", "") : pr \in prs}
  \cup {Request("getQueue", pr, n, "") : pr \in prs, n \in QueueNames}

\* One CreateQueue, UpdateQueue or DeleteQueue request.
InitQueueOp ==
  /\ \E n \in 0..MaxStored : InitStore(n)
  /\ \E r \in QueueRequests(PrincipalNames) : Single(r)
  /\ autoCreate = FALSE
  /\ batchSize = 1
  /\ faults \in 0..MaxFaults

Init == InitSubmit \/ InitCancel \/ InitReprio \/ InitInfo \/ InitQueueOp

Next ==
  \/ \E p \in Procs :
       \/ Start(p) \/ SubmitJobs(p) \/ CancelJobs(p) \/ ReprioritizeJobs(p) \/ GetQueueInfo(p)
       \/ CreateQueue(p) \/ UpdateQueue(p) \/ DeleteQueue(p) \/ GetQueue(p)
  \/ Tick

\* One request of any kind against the server.
Spec == Init /\ [][Next]_vars

NextSubmit == \E p \in Procs : Start(p) \/ SubmitJobs(p)

\* Two concurrent SubmitJobs requests with accepted items on the same job set.
InitSubmit2 ==
  /\ InitStore(0)
  /\ queues["q1"] = NoQueue \/ Len(queues["q1"].permissions) = 1
  /\ autoCreate = TRUE
  /\ batchSize = 1
  /\ faults \in 0..MaxFaults
  /\ pc = [p \in Procs |-> "idle"]
  /\ req \in [Procs -> SubmitRequests({"root", "alice"}, {"q1"}, {"js1"},
                          SeqsUpTo(GoodItems, MaxConcItems) \ {<<>>})]

SpecSubmit2 == InitSubmit2 /\ [][NextSubmit]_vars

\* One SubmitJobs request with accepted items, beside up to MaxSubmitFaults
\* collaborator failures.
InitSubmitFaults ==
  /\ InitStore(0)
  /\ queues["q1"] = NoQueue \/ Len(queues["q1"].permissions) = 1
  /\ autoCreate = TRUE
  /\ batchSize = 1
  /\ faults \in 0..MaxSubmitFaults
  /\ \E r \in SubmitRequests({"root", "alice"}, {"q1"}, {"js1"},
                              SeqsUpTo(GoodItems, MaxItems)) : Single(r)

SpecSubmitFaults == InitSubmitFaults /\ [][NextSubmit]_vars

NextMutate == \E p \in Procs : Start(p) \/ CancelJobs(p) \/ ReprioritizeJobs(p)

\* A ReprioritizeJobs request running beside a CancelJobs or another
\* ReprioritizeJobs request on the same jobs.
InitMutate ==
  /\ \E n \in 1..MaxStored :
       /\ InitStore(n)
       /\ \E r1 \in ReprioRequests({"root"}, n), r2 \in ReprioRequests({"root"}, n)
                       \cup CancelRequests({"root"}, n) :
            /\ r1.jobIds # <<>>
            /\ r2.deadline = NoDeadline
            /\ req = [p \in Procs |-> IF p = 1 THEN r1 ELSE r2]
  /\ Len(queues["q1"].permissions) = 0
  /\ pc = [p \in Procs |-> "idle"]
  /\ autoCreate = FALSE
  /\ batchSize = 1
  /\ faults \in 0..MaxFaults

SpecMutate == InitMutate /\ [][NextMutate]_vars

NextDelete == \E p \in Procs : Start(p) \/ SubmitJobs(p) \/ DeleteQueue(p)

\* A SubmitJobs request running beside a DeleteQueue request on the same queue.
InitDelete ==
  /\ InitStore(0)
  /\ queues["q1"] = NoQueue \/ Len(queues["q1"].permissions) = 1
  /\ autoCreate = TRUE
  /\ batchSize = 1
  /\ faults \in 0..MaxFaults
  /\ pc = [p \in Procs |-> "idle"]
  /\ \E r1 \in SubmitRequests({"root", "alice"}, {"q1"}, {"js1"},
                               SeqsUpTo(GoodItems, MaxConcItems) \ {<<>>}),
        r2 \in {Request("deleteQueue", pr, "q1", "") : pr \in {"root", "alice"}} :
       req = [p \in Procs |-> IF p = 1 THEN r1 ELSE r2]

SpecDelete == InitDelete /\ [][NextDelete]_vars

ContainerChoices == {[requests |-> rq, limits |-> lm] : rq \in ResourceLists, lm \in ResourceLists}

TolerationChoices ==
  {Toleration(key, effect) : key \in {"gpu", "spot"}, effect \in {"NoSchedule", "NoExecute"}}

\* Pod specs whose containers name any resources, and pod specs that list
\* any tolerations.
PodChoices ==
  {[containers |-> cs, tolerations |-> <<>>] :
     cs \in SeqsUpTo(ContainerChoices, MaxContainers) \ {<<>>}}
  \cup {[PlainPod EXCEPT !.tolerations = ts] : ts \in SeqsUpTo(TolerationChoices, MaxTolerations)}

\* One SubmitJobs request of one item with any pod spec.
InitDefaults ==
  /\ InitStore(0)
  /\ queues["q1"] = NoQueue \/ Len(queues["q1"].permissions) = 1
  /\ autoCreate = TRUE
  /\ batchSize = 1
  /\ faults \in 0..MaxFaults
  /\ \E pr \in {"root", "alice"}, pod \in PodChoices :
       \E r \in SubmitRequests({pr}, {"q1"}, {"js1"},
                               {<<[Item("c1", TRUE, 0, TRUE, 1) EXCEPT !.pod = pod]>>}) :
         Single(r)

SpecDefaults == InitDefaults /\ [][NextSubmit]_vars

Ports == {80, 81}

\* Ingress configurations of every shape: none, empty port lists, a port
\* listed twice in one configuration or in two.
IngressChoices ==
  SeqsUpTo({[ports |-> ps] : ps \in SeqsUpTo(Ports, MaxPorts)}, MaxIngress)

\* One SubmitJobs request whose last item has any ingress configurations.
InitIngress ==
  /\ InitStore(0)
  /\ queues["q1"] = NoQueue \/ Len(queues["q1"].permissions) = 1
  /\ autoCreate = TRUE
  /\ batchSize = 1
  /\ faults \in 0..MaxFaults
  /\ \E pr \in {"root", "alice"}, ing \in IngressChoices,
        first \in SeqsUpTo({Item("c1", TRUE, 0, TRUE, 1)}, 1) :
       \E r \in SubmitRequests({pr}, {"q1"}, {"js1"},
                               {first \o <<[Item(NoClient, TRUE, 0, TRUE, 1) EXCEPT !.ingress = ing]>>}) :
         Single(r)

SpecIngress == InitIngress /\ [][NextSubmit]_vars

\* A map of one entry.
OneEntry(key, value) == [k \in {key} |-> value]

\* One SubmitJobs request of one item with a label or an annotation of any text.
InitLabels ==
  /\ InitStore(0)
  /\ queues["q1"] = NoQueue \/ Len(queues["q1"].permissions) = 1
  /\ autoCreate = TRUE
  /\ batchSize = 1
  /\ faults \in 0..MaxFaults
  /\ \E text \in SeqsUpTo(TextTokens, MaxText), field \in {"labels", "annotations"} :
       \E r \in SubmitRequests({"root"}, {"q1"}, {"js1"},
                 {<<IF field = "labels"
                    THEN [Item("c1", TRUE, 0, TRUE, 1) EXCEPT !.labels = OneEntry("app", text)]
                    ELSE [Item("c1", TRUE, 0, TRUE, 1) EXCEPT !.annotations = OneEntry("note", text)]>>}) :
         Single(r)

SpecLabels == InitLabels /\ [][NextSubmit]_vars

NextOwns == \E p \in Procs : Start(p) \/ CallUserOwns(p)

\* One UserOwns call by any principal on an object with any owners.
InitOwns ==
  /\ InitStore(0)
  /\ queues = EmptyRegistry
  /\ autoCreate = FALSE
  /\ batchSize = 1
  /\ faults = 0
  /\ \E pr \in PrincipalNames, users \in SeqsUpTo({"alice", "root"}, MaxOwners),
        groups \in SeqsUpTo({"devs", "admins"}, MaxOwners) :
       Single([Request("userOwns", pr, "", "") EXCEPT !.obj = Owned(users, groups)])

SpecOwns == InitOwns /\ [][NextOwns]_vars

NextCancel == \E p \in Procs : Start(p) \/ CancelJobs(p)

\* One CancelJobs request of any shape against a store that holds one job
\* of job set js1 and one of job set js2.
InitCancelFrame ==
  /\ InitServer
  /\ jobs = {StoredJob(1), [StoredJob(2) EXCEPT !.jobSetId = "js2"]}
  /\ events = StoredEvents(2)
  /\ nextId = 3
  /\ queues \in {[EmptyRegistry EXCEPT !["q1"] = q] : q \in QueueChoices}
  /\ autoCreate = FALSE
  /\ batchSize \in {1, 2}
  /\ faults \in 0..MaxFaults
  /\ \E pr \in PrincipalNames, id \in 0..3, q \in QueueNames, js \in {"js1", "js2", ""} :
       Single([Request("cancel", pr, q, js) EXCEPT !.jobId = id])

SpecCancelFrame == InitCancelFrame /\ [][NextCancel]_vars

NextQueue2 == \E p \in Procs : Start(p) \/ CreateQueue(p) \/ GetQueue(p)

\* A CreateQueue request and a GetQueue request, in any order or interleaved.
InitQueue2 ==
  /\ InitStore(0)
  /\ autoCreate = FALSE
  /\ batchSize = 1
  /\ faults \in 0..MaxFaults
  /\ pc = [p \in Procs |-> "idle"]
  /\ \E pr \in PrincipalNames, n \in QueueNames, f \in {0, 1}, owners \in {{}, {"alice"}},
        g \in PrincipalNames, gn \in QueueNames :
       req = [p \in Procs |->
                IF p = 1
                THEN [Request("createQueue", pr, "", "") EXCEPT !.newQueue = ApiQueue(n, f, owners)]
                ELSE Request("getQueue", g, gn, "")]

SpecQueue2 == InitQueue2 /\ [][NextQueue2]_vars

\* ------------------------------------------------------------ properties
VerbOf(op) ==
  CASE op = "submit" -> "submit"
    [] op = "cancel" -> "cancel"
    [] op = "reprioritize" -> "reprioritize"
    [] op = "queueInfo" -> "watch"

AnyPermOf(verb) ==
  CASE verb = "submit" -> "submit_any_jobs"
    [] verb = "cancel" -> "cancel_any_jobs"
    [] verb = "reprioritize" -> "reprioritize_any_jobs"
    [] verb = "watch" -> "watch_all_events"

\* Q's permission list grants V to a subject matching P: P as a user, or a group of P.
QueueGrants(pr, q, verb) ==
  \E k \in 1..Len(q.permissions) :
    /\ verb \in q.permissions[k].verbs
    /\ \E s \in q.permissions[k].subjects :
         \/ s.kind = "user" /\ s.name = pr.name
         \/ s.kind = "group" /\ s.name \in pr.groups

Allowed(p) ==
  \/ UserHasPermission(Principal(p), AnyPermOf(VerbOf(req[p].op)))
  \/ QueueGrants(Principal(p), loc[p].q, VerbOf(req[p].op))

Done(p, op) == req[p].op = op /\ pc[p] = "done"

\* C1: in every operation on jobs (SubmitJobs, CancelJobs, ReprioritizeJobs,
\* GetQueueInfo) the authorization step succeeds iff the principal holds the
\* global V_any permission or the queue grants V to a subject matching the
\* principal; a request the step refuses returns PermissionDenied, and
\* PermissionDenied is returned only when both tiers refuse.  The queue
\* operations check one global permission and have no second tier.
C1_TwoTierAuthorization ==
  \A p \in Procs :
    /\ loc[p].auth # "" =>
         /\ loc[p].auth = "ok" <=> Allowed(p)
         /\ loc[p].auth = "denied" => pc[p] = "done" /\ ret[p].status = "PermissionDenied"
    /\ /\ req[p].op \in {"submit", "cancel", "reprioritize", "queueInfo"}
       /\ pc[p] = "done" /\ ret[p].status = "PermissionDenied"
       => loc[p].auth = "denied" /\ ~Allowed(p)

\* A request of a principal without the global permission, let through by
\* the queue tier, has returned OK.
C1_QueueTierAdmits ==
  \E p \in Procs :
    /\ pc[p] = "done" /\ ret[p].status = "OK"
    /\ loc[p].auth = "ok"
    /\ ~UserHasPermission(Principal(p), AnyPermOf(VerbOf(req[p].op)))

\* The types of the events the sink holds for job id, in sink order.
EventTypesOf(id) ==
  LET Mine(e) == e.jobId = id
      mine == SelectSeq(events, Mine)
  IN [k \in 1..Len(mine) |-> mine[k].type]

\* The event that matches the outcome a response item reports for a job.
OutcomeEvent(job, item) ==
  IF item.error THEN "failed"
  ELSE IF item.jobId # job.id THEN "duplicate_found"
  ELSE "queued"

\* SubmitJobs returned with the results of add_jobs partitioned.
Partitioned(p) ==
  /\ Done(p, "submit")
  /\ ret[p].result # Nil
  /\ Len(ret[p].result[1]) = Len(loc[p].jobs)

\* C2 as stated: for every job of a SubmitJobs request whose results were
\* partitioned, the sink holds exactly one submitted event and then exactly
\* the one event matching the outcome reported for the job.
C2_ExactlyOneOutcomeEvent ==
  \A p \in Procs :
    Partitioned(p) =>
      \A k \in 1..Len(loc[p].jobs) :
        EventTypesOf(loc[p].jobs[k].id) =
          <<"submitted", OutcomeEvent(loc[p].jobs[k], ret[p].result[1][k])>>

\* C2, amended: exactly one outcome is reported per job; the sink holds one
\* submitted event for the job and then at most one event, the one matching
\* the reported outcome; it holds both when no event append of the request failed.
C2_OutcomeEventUnlessReportFails ==
  \A p \in Procs :
    Partitioned(p) =>
      \A k \in 1..Len(loc[p].jobs) :
        LET types == EventTypesOf(loc[p].jobs[k].id)
            both == <<"submitted", OutcomeEvent(loc[p].jobs[k], ret[p].result[1][k])>>
        IN /\ types \in {<<"submitted">>, both}
           /\ ~loc[p].reportErr => types = both

\* A request with a job the store refused and a job it created, all events appended.
C2_MixedOutcomesReported ==
  \E p \in Procs :
    /\ Partitioned(p)
    /\ ~loc[p].reportErr
    /\ \E k, l \in 1..Len(loc[p].jobs) :
         /\ EventTypesOf(loc[p].jobs[k].id) = <<"submitted", "failed">>
         /\ EventTypesOf(loc[p].jobs[l].id) = <<"submitted", "queued">>

\* SubmitJobs failed at queue resolution, authorization, job building or feasibility.
PreCommitFailure(p) ==
  /\ Done(p, "submit")
  /\ \/ ret[p].status \in {"NotFound", "Unavailable", "PermissionDenied", "InvalidArgument"}
     \/ ret[p].status = "Aborted" /\ loc[p].createRes \in {"exists", "error"}

\* C3 as stated: when SubmitJobs fails at steps 1-5, the request wrote
\* nothing: it created no queue in the registry, the job store holds no job
\* of it and the event sink no event of it.
C3_PreCommitFailureWritesNothing ==
  \A p \in Procs :
    PreCommitFailure(p) =>
      /\ loc[p].createRes # "ok"
      /\ \A k \in 1..Len(loc[p].jobs) : loc[p].jobs[k] \notin jobs
      /\ \A k \in 1..Len(events) : events[k].by # p

\* C4 as stated: when set-scoped CancelJobs returns an error status after
\* this request deleted at least one job from the store, the returned result
\* carries the ids of all jobs the request deleted.
C4_ErrorCarriesDeletedIds ==
  \A p \in Procs :
    Done(p, "cancel") /\ BySet(p) /\ ret[p].status # "OK" /\ loc[p].deleted # {} =>
      /\ ret[p].result # Nil
      /\ Range(ret[p].result[1].cancelledIds) = loc[p].deleted

\* The ids of the batches the set path has not finished.
LaterIds(p) ==
  UNION {Range(Batches(p)[b]) : b \in (loc[p].bi + 1)..Len(Batches(p))}

\* The remaining deadline of the request is under one second.
UnderOneSecond(p) == req[p].deadline # NoDeadline /\ req[p].deadline - now < Second

\* What C5 says of a request that returned DeadlineExceeded.
StoppedAtDeadline(p) ==
  /\ ret[p].result # Nil
  /\ Range(ret[p].result[1].cancelledIds) = loc[p].deleted
  /\ Range(IdsOf(loc[p].jobs)) \subseteq Range(Batches(p)[loc[p].bi])
  /\ \A id \in LaterIds(p) :
       /\ \E j \in jobs : j.id = id
       /\ \A k \in 1..Len(events) : events[k].jobId = id => events[k].by # p

\* C5: in set-scoped CancelJobs, the step that finishes a batch returns
\* DeadlineExceeded iff the remaining deadline is under one second; when it
\* does, cancelled_ids holds exactly the ids deleted in the finished batches,
\* and the jobs of the later batches are not fetched, still stored and have
\* no event of this request.
C5_DeadlineAfterBatch ==
  /\ [](\A p \in Procs :
          Done(p, "cancel") /\ ret[p].status = "DeadlineExceeded" =>
            BySet(p) /\ UnderOneSecond(p) /\ StoppedAtDeadline(p))
  /\ [][\A p \in Procs :
          req[p].op = "cancel" /\ BySet(p) /\ loc'[p].bi = loc[p].bi + 1 =>
            (UnderOneSecond(p) <=> pc'[p] = "done" /\ ret'[p].status = "DeadlineExceeded")]_vars

\* The deadline stopped a request after its first batch with a batch left.
C5_StoppedWithBatchLeft ==
  \E p \in Procs :
    /\ Done(p, "cancel") /\ ret[p].status = "DeadlineExceeded"
    /\ loc[p].deleted # {}
    /\ LaterIds(p) # {}

\* C6 as stated: a SubmitJobs request whose auto-create found the queue
\* already there goes on to the authorization step instead of returning.
C6_AlreadyExistsProceeds ==
  \A p \in Procs :
    Done(p, "submit") /\ loc[p].createRes = "exists" => loc[p].auth # ""

\* The events the mutator of request p appended for job id, in sink order.
MutatorEventsOf(p, id) ==
  LET Mine(e) == e.jobId = id /\ e.by = p /\ e.type \in {"updated", "reprioritized"}
      mine == SelectSeq(events, Mine)
  IN [k \in 1..Len(mine) |-> mine[k].type]

\* The mutator has appended updated and then reprioritized for job id.
MutatorReported(p, id) ==
  LET types == MutatorEventsOf(p, id)
  IN /\ Len(types) >= 2
     /\ types[Len(types) - 1] = "updated"
     /\ types[Len(types)] = "reprioritized"

\* C7: when update_jobs comes to commit, the mutator has already appended
\* updated and reprioritized for every job it observed (unless the sink
\* failed); when a job it observed was changed or deleted meanwhile, the
\* write is rejected: the store is left as it is and the events stay in the sink.
C7_EventsSurviveRejectedWrite ==
  [][\A p \in Procs :
       pc[p] = "r_commit" /\ pc'[p] # "r_commit" =>
         /\ ~loc[p].reportErr =>
              \A k \in 1..Len(loc[p].snapshot) : MutatorReported(p, loc[p].snapshot[k].id)
         /\ (\E k \in 1..Len(loc[p].snapshot) : loc[p].snapshot[k] \notin jobs) =>
              jobs' = jobs /\ events' = events]_vars

\* update_jobs gave up on a job whose reprioritized event is in the sink,
\* and the job is gone or still has its old priority.
C7_RejectedWithEvents ==
  \E p \in Procs :
    /\ Done(p, "reprioritize") /\ loc[p].update = "rejected"
    /\ \E k \in 1..Len(loc[p].snapshot) :
         /\ MutatorReported(p, loc[p].snapshot[k].id)
         /\ \A j \in jobs : j.id = loc[p].snapshot[k].id => j.priority # req[p].newPriority

\* Job a and job b carry the same (queue, job_set_id, client_id).
SameKey(a, b) ==
  /\ a.clientId # NoClient
  /\ a.clientId = b.clientId
  /\ a.queue = b.queue
  /\ a.jobSetId = b.jobSetId

\* Job k of request p is the first of the request with its key.
FirstOfKey(p, k) == \A i \in 1..(k - 1) : ~SameKey(loc[p].jobs[i], loc[p].jobs[k])

\* Request first returned OK before request second started, which returned OK too.
InSequence(first, second) ==
  /\ first \in after[second]
  /\ Done(first, "submit") /\ ret[first].status = "OK"
  /\ Done(second, "submit") /\ ret[second].status = "OK"

\* C8: when an item with the same (queue, job_set_id, client_id) is
\* submitted by two calls in sequence, the first call returns the fresh id
\* and emits queued; the second returns that same id, emits one
\* duplicate_found and no queued, and the store holds the first job only.
C8_SecondSubmitIsDuplicate ==
  \A first, second \in Procs :
    InSequence(first, second) =>
      \A k \in 1..Len(loc[first].jobs), l \in 1..Len(loc[second].jobs) :
        LET a == loc[first].jobs[k]
            b == loc[second].jobs[l]
        IN SameKey(a, b) /\ FirstOfKey(first, k) =>
             /\ ret[first].result[1][k].jobId = a.id
             /\ EventTypesOf(a.id) = <<"submitted", "queued">>
             /\ ret[second].result[1][l].jobId = a.id
             /\ EventTypesOf(b.id) = <<"submitted", "duplicate_found">>
             /\ {j \in jobs : SameKey(a, j)} = {a}

\* Two calls in sequence carried the same key.
C8_SameKeyTwiceInSequence ==
  \E first, second \in Procs :
    /\ InSequence(first, second)
    /\ \E k \in 1..Len(loc[first].jobs), l \in 1..Len(loc[second].jobs) :
         SameKey(loc[first].jobs[k], loc[second].jobs[l])

\* The jobs built so far, as (request, index) pairs.
Built == UNION {{<<p, k>> : k \in 1..Len(loc[p].jobs)} : p \in Procs}

JobAt(x) == loc[x[1]].jobs[x[2]]

\* The built jobs add_jobs accepted: they have a result without error.
Accepted == {x \in Built : /\ x[2] <= Len(loc[x[1]].results)
                           /\ ~loc[x[1]].results[x[2]].error}

\* The sink's queued events for the jobs of xs.
QueuedFor(xs) ==
  {k \in 1..Len(events) : /\ events[k].type = "queued"
                          /\ \E x \in xs : JobAt(x).id = events[k].jobId}

\* C9: under every interleaving of SubmitJobs requests the minted ids are
\* distinct; of the jobs add_jobs accepted with one (queue, job_set_id,
\* client_id) exactly one is stored and reported created, every other one is
\* reported a duplicate with the stored job's id, and the sink holds at most
\* one queued event for them, for the stored job.
C9_ConcurrentSubmitsDeduplicate ==
  /\ \A x, y \in Built : x # y => JobAt(x).id # JobAt(y).id
  /\ \A x \in Accepted :
       JobAt(x).clientId # NoClient =>
         LET same == {y \in Accepted : SameKey(JobAt(x), JobAt(y))}
             created == {y \in same : loc[y[1]].results[y[2]].jobId = JobAt(y).id}
         IN /\ Cardinality(created) = 1
            /\ {j \in jobs : SameKey(JobAt(x), j)} = {JobAt(y) : y \in created}
            /\ \A y \in same : \E z \in created : loc[y[1]].results[y[2]].jobId = JobAt(z).id
            /\ Cardinality(QueuedFor(same)) <= 1
            /\ QueuedFor(same \ created) = {}
            /\ (\A y \in same : Done(y[1], "submit") /\ ret[y[1]].status = "OK") =>
                 Cardinality(QueuedFor(created)) = 1

\* Two requests that overlapped in time carried the same key and both returned OK.
C9_ConcurrentSameKey ==
  \E p, o \in Procs :
    /\ p # o /\ after[p] = {} /\ after[o] = {}
    /\ Done(p, "submit") /\ ret[p].status = "OK"
    /\ Done(o, "submit") /\ ret[o].status = "OK"
    /\ \E k \in 1..Len(loc[p].jobs), l \in 1..Len(loc[o].jobs) :
         SameKey(loc[p].jobs[k], loc[o].jobs[l])

\* C10: a job of a SubmitJobs request is written by add_jobs, and gets a
\* queued, duplicate_found or failed event, only after its submitted event;
\* when appending the submitted events fails, add_jobs is not called:
\* the request has no result and no job in the store.
C10_SubmittedFirst ==
  /\ \A p \in Procs :
       req[p].op = "submit" =>
         /\ \A k \in 1..Len(loc[p].jobs) :
              k <= Len(loc[p].results) \/ loc[p].jobs[k] \in jobs
                \/ pc[p] \in {"s_addJobs", "s_reportFailedAll"} =>
                  /\ EventTypesOf(loc[p].jobs[k].id) # <<>>
                  /\ EventTypesOf(loc[p].jobs[k].id)[1] = "submitted"
         /\ Done(p, "submit") /\ ret[p].status = "Aborted" /\ loc[p].reportErr =>
              /\ loc[p].results = <<>>
              /\ \A k \in 1..Len(loc[p].jobs) :
                   loc[p].jobs[k] \notin jobs /\ EventTypesOf(loc[p].jobs[k].id) = <<>>
  /\ \A i \in 1..Len(events) :
       events[i].type \in {"queued", "duplicate_found", "failed"} =>
         \E h \in 1..(i - 1) :
           events[h].jobId = events[i].jobId /\ events[h].type = "submitted"

\* A job of a request is in the store with its submitted and then its queued event.
C10_StoredAfterSubmitted ==
  \E p \in Procs :
    /\ req[p].op = "submit"
    /\ \E k \in 1..Len(loc[p].jobs) :
         /\ loc[p].jobs[k] \in jobs
         /\ EventTypesOf(loc[p].jobs[k].id) = <<"submitted", "queued">>

\* The positions of the sink's events of the given type that request p appended for job id.
EventsAt(p, type, id) ==
  {i \in 1..Len(events) : /\ events[i].by = p
                          /\ events[i].type = type
                          /\ events[i].jobId = id}

\* The ids of the jobs the request holds (the fetched batch).
HeldIds(p) == {loc[p].jobs[k].id : k \in 1..Len(loc[p].jobs)}

\* C11: in both cancel paths no event of a batch is appended before the
\* authorization of the batch passed; every job gone from the store by
\* delete_jobs has its cancelling event; a cancelled event follows the
\* job's cancelling event and is appended, and the id returned, only for
\* jobs delete_jobs deleted; when authorization fails the request has
\* appended no event and deleted no job.
C11_CancelOrder ==
  \A p \in Procs :
    req[p].op = "cancel" =>
      /\ pc[p] = "c_perms" =>
           \A id \in HeldIds(p) :
             EventsAt(p, "cancelling", id) = {} /\ EventsAt(p, "cancelled", id) = {}
      /\ \A id \in loc[p].deleted : EventsAt(p, "cancelling", id) # {}
      /\ pc[p] = "c_delete" => \A id \in HeldIds(p) : EventsAt(p, "cancelling", id) # {}
      /\ \A i \in 1..Len(events) :
           events[i].by = p /\ events[i].type = "cancelled" =>
             /\ events[i].jobId \in loc[p].deleted
             /\ \E h \in EventsAt(p, "cancelling", events[i].jobId) : h < i
      /\ Done(p, "cancel") /\ ret[p].result # Nil =>
           Range(ret[p].result[1].cancelledIds) \subseteq loc[p].deleted
      /\ Done(p, "cancel") /\ ret[p].status = "PermissionDenied" =>
           /\ \A i \in 1..Len(events) : events[i].by # p
           /\ loc[p].deleted = {}
           /\ \A k \in 1..Len(loc[p].jobs) : loc[p].jobs[k] \in jobs

\* A request cancelled one job of a batch while delete_jobs failed for another.
C11_OneDeletedOneFailed ==
  \E p \in Procs :
    /\ Done(p, "cancel") /\ ret[p].status = "OK"
    /\ \E a, b \in HeldIds(p) :
         /\ a \in loc[p].deleted /\ EventsAt(p, "cancelled", a) # {}
         /\ b \notin loc[p].deleted /\ EventsAt(p, "cancelling", b) # {}

\* update_jobs has been invoked for request p.
UpdateInvoked(p) ==
  \/ pc[p] \in {"r_updated", "r_reprioritized", "r_commit"}
  \/ loc[p].snapshot # <<>>
  \/ loc[p].tries > 0
  \/ loc[p].update # ""

\* C12: in ReprioritizeJobs no event is appended before the authorization
\* passed; the reprioritizing event of every job is in the sink when
\* update_jobs runs; an updated event follows the job's reprioritizing
\* event and a reprioritized event follows an updated event of the job;
\* when authorization or the append of reprioritizing fails, update_jobs is
\* not invoked, the mutator appends nothing and no stored priority changes.
C12_ReprioritizeOrder ==
  \A p \in Procs :
    req[p].op = "reprioritize" =>
      /\ pc[p] \in {"r_fetch", "r_getJobs", "r_perms"} => \A i \in 1..Len(events) : events[i].by # p
      /\ pc[p] = "r_read" \/ UpdateInvoked(p) =>
           \A id \in HeldIds(p) : EventsAt(p, "reprioritizing", id) # {}
      /\ \A i \in 1..Len(events) :
           /\ events[i].by = p /\ events[i].type = "updated" =>
                \E h \in EventsAt(p, "reprioritizing", events[i].jobId) : h < i
           /\ events[i].by = p /\ events[i].type = "reprioritized" =>
                \E h \in EventsAt(p, "updated", events[i].jobId) : h < i
      /\ Done(p, "reprioritize")
           /\ (ret[p].status = "PermissionDenied" \/ (ret[p].status = "Unavailable" /\ loc[p].reportErr)) =>
             /\ ~UpdateInvoked(p)
             /\ \A i \in 1..Len(events) :
                  events[i].by = p => events[i].type \notin {"updated", "reprioritized"}
             /\ \A j \in jobs : j.priority # req[p].newPriority

\* A request changed the priority of a job and left the three events of it in order.
C12_ReprioritizedInOrder ==
  \E p \in Procs :
    /\ Done(p, "reprioritize") /\ loc[p].update = "committed"
    /\ \E j \in jobs :
         /\ j.priority = req[p].newPriority
         /\ \E a \in EventsAt(p, "reprioritizing", j.id), b \in EventsAt(p, "updated", j.id),
               c \in EventsAt(p, "reprioritized", j.id) : a < b /\ b < c

\* The queue of the request has a job in the store.
HasActiveJobs(p) == \E j \in jobs : j.queue = req[p].queue

\* C13: DeleteQueue by a caller holding delete_queue, with the collaborators
\* answering, succeeds iff the queue has no active job set; with an active
\* job set it fails with failed-precondition; a call that does not succeed
\* leaves the registry as it is, and a successful one removes the queue.
C13_DeleteQueueIffNoActiveJobSets ==
  /\ [](\A p \in Procs :
          Done(p, "deleteQueue") =>
            /\ ret[p].status = "OK" => ~HasActiveJobs(p) /\ queues[req[p].queue] = NoQueue
            /\ ret[p].status = "FailedPrecondition" => HasActiveJobs(p)
            /\ ret[p].status = "PermissionDenied" <=>
                 ~UserHasPermission(Principal(p), "delete_queue")
            /\ ret[p].status \in {"OK", "FailedPrecondition", "PermissionDenied", "InvalidArgument"})
  /\ [][\A p \in Procs :
          req[p].op = "deleteQueue" =>
            /\ queues' # queues => pc'[p] = "done" /\ ret'[p].status = "OK"
            /\ pc[p] # "done" /\ pc'[p] = "done" /\ ret'[p].status = "InvalidArgument" =>
                 faults' < faults]_vars

\* DeleteQueue was refused for a queue with an active job set, and the queue is there.
C13_RefusedWithActiveJobSet ==
  \E p \in Procs :
    /\ Done(p, "deleteQueue") /\ ret[p].status = "FailedPrecondition"
    /\ HasActiveJobs(p)
    /\ queues[req[p].queue] # NoQueue

\* C14 as stated: under every interleaving of DeleteQueue with SubmitJobs
\* on the same queue, the queue of every stored job is in the registry.
C14_StoredJobsHaveQueue ==
  \A j \in jobs : queues[j.queue] # NoQueue

\* C15 as stated: every queue in the registry, whether written by
\* CreateQueue, UpdateQueue or by the auto-create of SubmitJobs, has a
\* non-empty name and a priority factor above zero.
C15_QueuesWellFormed ==
  \A n \in QueueNames :
    queues[n] # NoQueue => queues[n].name # "" /\ queues[n].priorityFactor > 0

\* C16: a SubmitJobs request whose queue was resolved and whose caller has
\* neither submit_any_jobs nor the queue's submit verb returns
\* PermissionDenied with a message naming both refusals; it created no
\* queue, the registry entry is the one it read, the job store holds no job
\* and the event sink no event.
C16_DeniedSubmitWritesNothing ==
  \A p \in Procs :
    Done(p, "submit") /\ loc[p].q # NoQueue /\ ~Allowed(p) =>
      /\ ret[p].status = "PermissionDenied"
      /\ ret[p].result = Nil
      /\ loc[p].message = <<"submit_any_jobs", "submit">>
      /\ loc[p].createRes = ""
      /\ queues[req[p].queue] = loc[p].q
      /\ jobs = {}
      /\ events = <<>>

\* A request with items, on a queue that grants its caller nothing, was refused.
C16_SubmitRefused ==
  \E p \in Procs :
    /\ Done(p, "submit") /\ loc[p].q # NoQueue /\ ~Allowed(p)
    /\ Len(req[p].items) > 0
    /\ ret[p].status = "PermissionDenied"

\* The item names both pod_spec and pod_specs, or neither.
BadPodSpecs(item) ==
  \/ item.podSpec /\ item.podSpecs > 0
  \/ ~item.podSpec /\ item.podSpecs = 0

\* C17: a SubmitJobs request with an item that names both pod_spec and
\* pod_specs, or neither, never succeeds, stores no job and emits no event,
\* valid items included; once its caller is authorized it returns
\* InvalidArgument for the whole request.
C17_BadPodSpecsRejectWholeRequest ==
  \A p \in Procs :
    Done(p, "submit") /\ (\E k \in 1..Len(req[p].items) : BadPodSpecs(req[p].items[k])) =>
      /\ ret[p].status # "OK"
      /\ ret[p].result = Nil
      /\ jobs = {}
      /\ events = <<>>
      /\ loc[p].auth = "ok" => ret[p].status = "InvalidArgument"

\* A request whose first item is valid and whose second names both or
\* neither was rejected after the first job was built.
C17_ValidItemBeforeBadOne ==
  \E p \in Procs :
    /\ Done(p, "submit") /\ ret[p].status = "InvalidArgument"
    /\ Len(req[p].items) = 2
    /\ req[p].items[1] \in GoodItems
    /\ BadPodSpecs(req[p].items[2])
    /\ Len(loc[p].jobs) = 1

\* C18: a SubmitJobs request with no items, on a queue that exists, by an
\* authorized caller, with a job set id, stores no job and appends no event;
\* it returns an empty response with no error, unless the scheduling-info
\* oracle fails, and then it returns InvalidArgument.
C18_EmptyItemsEmptyResponse ==
  \A p \in Procs :
    /\ Done(p, "submit") /\ req[p].items = <<>>
    /\ loc[p].auth = "ok" /\ loc[p].createRes = ""
    /\ req[p].jobSetId # "" /\ req[p].queue # ""
    => /\ jobs = {}
       /\ events = <<>>
       /\ ret[p].status \in {"OK", "InvalidArgument"}
       /\ ret[p].status = "OK" => ret[p].result = Result(<<>>)
       /\ faults = MaxFaults => ret[p].status = "OK"

\* An empty request of a caller the queue admits returned without error.
C18_EmptyRequestAnswered ==
  \E p \in Procs :
    /\ Done(p, "submit") /\ req[p].items = <<>>
    /\ loc[p].auth = "ok" /\ loc[p].createRes = ""
    /\ ret[p].status = "OK" /\ ret[p].result = Result(<<>>)

\* The events of request p of the given type, in sink order.
EventsOfBy(p, type) ==
  LET Mine(e) == e.by = p /\ e.type = type
  IN SelectSeq(events, Mine)

WholeFailure(p) == Done(p, "submit") /\ loc[p].addErr

\* C19 as stated: when add_jobs fails as a whole, a failed event is emitted
\* for every job of the request, no queued or duplicate_found event is
\* emitted, and the call returns an error with no response items.
C19_WholeFailureReportsFailed ==
  \A p \in Procs :
    WholeFailure(p) =>
      /\ EventsOfBy(p, "failed") = EventsFor("failed", loc[p].jobs, p)
      /\ EventsOfBy(p, "queued") = <<>>
      /\ EventsOfBy(p, "duplicate_found") = <<>>
      /\ ret[p].status # "OK" /\ ret[p].result = Nil

\* C19, amended: when add_jobs fails as a whole no job of the request is
\* stored, no queued or duplicate_found event is emitted and the call
\* returns an error with no response items; a failed event is emitted for
\* every job and the status is Aborted, unless the report of the failed
\* events itself fails, and then no failed event is emitted and the status
\* is Internal.
C19_WholeFailureReportsFailedUnlessReportFails ==
  \A p \in Procs :
    WholeFailure(p) =>
      /\ \A k \in 1..Len(loc[p].jobs) : loc[p].jobs[k] \notin jobs
      /\ EventsOfBy(p, "queued") = <<>>
      /\ EventsOfBy(p, "duplicate_found") = <<>>
      /\ ret[p].result = Nil
      /\ IF loc[p].reportErr
         THEN ret[p].status = "Internal" /\ EventsOfBy(p, "failed") = <<>>
         ELSE /\ ret[p].status = "Aborted"
              /\ EventsOfBy(p, "failed") = EventsFor("failed", loc[p].jobs, p)

\* add_jobs failed as a whole for a request of two jobs and both failed
\* events reached the sink.
C19_TwoJobsFailedAsAWhole ==
  \E p \in Procs :
    /\ WholeFailure(p) /\ ~loc[p].reportErr
    /\ Len(loc[p].jobs) = 2
    /\ Len(EventsOfBy(p, "failed")) = 2

\* add_jobs answered for every job of the request, and then a report of
\* failed, duplicate_found or queued events failed or some job was not stored.
PostWriteFailure(p) ==
  /\ Done(p, "submit")
  /\ Len(loc[p].jobs) > 0 /\ Len(loc[p].results) = Len(loc[p].jobs)
  /\ \/ loc[p].reportErr
     \/ \E k \in 1..Len(loc[p].results) : loc[p].results[k].error

\* C20: when a report of failed, duplicate_found or queued events fails in
\* SubmitJobs, or an item failed to be stored, the call returns Internal
\* with the whole response, one item per add_jobs result in order, and the
\* jobs add_jobs stored are still in the store.
C20_PostWriteFailureKeepsResponse ==
  \A p \in Procs :
    PostWriteFailure(p) =>
      /\ ret[p].status = "Internal"
      /\ ret[p].result # Nil
      /\ Len(ret[p].result[1]) = Len(loc[p].results)
      /\ \A k \in 1..Len(loc[p].results) :
           /\ ret[p].result[1][k].jobId = loc[p].results[k].jobId
           /\ ret[p].result[1][k].error = loc[p].results[k].error
           /\ ~loc[p].results[k].error /\ ~loc[p].results[k].dup => loc[p].jobs[k] \in jobs

\* The first job of a request was stored, the second was refused, and the
\* report of the failed event failed as well.
C20_StoredThenRefusedThenReportFails ==
  \E p \in Procs :
    /\ PostWriteFailure(p) /\ loc[p].reportErr
    /\ Len(loc[p].results) = 2
    /\ ~loc[p].results[1].error /\ loc[p].results[2].error
    /\ loc[p].jobs[1] \in jobs
    /\ ret[p].status = "Internal"

\* Some binding of q lists the subject together with the submit verb.
GrantsSubmit(q, kind, name) ==
  \E k \in 1..Len(q.permissions) :
    /\ "submit" \in q.permissions[k].verbs
    /\ \E s \in q.permissions[k].subjects : s.kind = kind /\ s.name = name

\* C21: every job built by SubmitJobs has the caller's name as owner; its
\* ownership groups are empty when the queue grants submit to the caller as
\* a user, and otherwise exactly the caller's groups the queue grants
\* submit to.
C21_OwnershipGroups ==
  \A p \in Procs :
    req[p].op = "submit" =>
      \A k \in 1..Len(loc[p].jobs) :
        /\ loc[p].jobs[k].owner = req[p].principal
        /\ loc[p].jobs[k].groups =
             IF GrantsSubmit(loc[p].q, "user", req[p].principal) THEN {}
             ELSE {g \in Principal(p).groups : GrantsSubmit(loc[p].q, "group", g)}

\* A caller in group admins stored one job on a queue that grants submit
\* to group admins: the job carries admins, after submitted comes queued.
C21_AdminsGroupStamped ==
  \E p \in Procs :
    /\ Done(p, "submit") /\ ret[p].status = "OK"
    /\ Len(loc[p].jobs) = 1
    /\ loc[p].jobs[1] \in jobs
    /\ loc[p].jobs[1].groups = {"admins"}
    /\ EventTypesOf(loc[p].jobs[1].id) = <<"submitted", "queued">>

\* The user subjects the bindings of q list.
UserOwnersOf(q) ==
  {s.name : s \in {t \in UNION {q.permissions[k].subjects : k \in 1..Len(q.permissions)} :
                     t.kind = "user"}}

MayAutoCreate(p) == autoCreate /\ UserHasPermission(Principal(p), "submit_any_jobs")

\* C22: a SubmitJobs request to a queue absent from the registry creates
\* the queue iff auto_create_queues is enabled and the caller has
\* submit_any_jobs (and the registry answers); otherwise it returns NotFound
\* and the registry is unchanged.  The queue created has the default
\* priority factor and the caller as its only user owner.
C22_AutoCreateIffEnabledAndPermitted ==
  /\ [](\A p \in Procs :
          req[p].op = "submit" =>
            /\ loc[p].createRes = "ok" =>
                 /\ MayAutoCreate(p)
                 /\ queues[req[p].queue].name = req[p].queue
                 /\ queues[req[p].queue].priorityFactor = DefaultPriorityFactor
                 /\ UserOwnersOf(queues[req[p].queue]) = {req[p].principal}
            /\ pc[p] = "done" /\ ret[p].status = "NotFound" =>
                 ~MayAutoCreate(p) /\ queues[req[p].queue] = NoQueue)
  /\ [][\A p \in Procs :
          /\ pc[p] = "s_getQueue" /\ pc'[p] # "s_getQueue" /\ queues[req[p].queue] = NoQueue =>
               /\ queues' = queues
               /\ faults' = faults =>
                    IF MayAutoCreate(p)
                    THEN pc'[p] = "s_createQueue"
                    ELSE pc'[p] = "done" /\ ret'[p].status = "NotFound"
          /\ pc[p] = "s_createQueue" /\ pc'[p] # "s_createQueue" =>
               /\ \A n \in QueueNames : n # req[p].queue => queues'[n] = queues[n]
               /\ faults' = faults /\ queues[req[p].queue] = NoQueue =>
                    queues'[req[p].queue] # NoQueue]_vars

\* A caller with submit_any_jobs submitted to an absent queue: the queue
\* is in the registry and the request succeeded.
C22_QueueAutoCreated ==
  \E p \in Procs :
    /\ Done(p, "submit") /\ ret[p].status = "OK"
    /\ loc[p].createRes = "ok"
    /\ queues[req[p].queue] # NoQueue
    /\ Len(loc[p].jobs) > 0

\* C23: a successful CreateQueue stores the caller as the only user owner
\* exactly when the request listed no user owner, and the listed user owners
\* unchanged otherwise; a caller without create_queue gets PermissionDenied
\* and the registry is unchanged.
C23_CreateQueueDefaultsOwner ==
  /\ [](\A p \in Procs :
          Done(p, "createQueue") /\ ret[p].status = "OK" =>
            /\ checkPermission(Principal(p), "create_queue")
            /\ UserOwnersOf(queues[req[p].newQueue.name]) =
                 IF req[p].newQueue.userOwners = {} THEN {req[p].principal}
                 ELSE req[p].newQueue.userOwners)
  /\ [][\A p \in Procs :
          /\ pc[p] = "q_create" /\ pc'[p] # "q_create"
          /\ ~checkPermission(Principal(p), "create_queue")
          => ret'[p].status = "PermissionDenied" /\ queues' = queues]_vars

\* A caller with create_queue created a queue without naming an owner.
C23_CallerBecameOwner ==
  \E p \in Procs :
    /\ Done(p, "createQueue") /\ ret[p].status = "OK"
    /\ req[p].newQueue.userOwners = {}
    /\ UserOwnersOf(queues[req[p].newQueue.name]) = {req[p].principal}

\* What an api.Queue grants: every verb to its owners, and to the subjects
\* of each binding the verbs of the binding.
GrantsOf(q) ==
  {<<UserSubject(u), v>> : u \in q.userOwners, v \in Verbs}
  \cup {<<GroupSubject(g), v>> : g \in q.groupOwners, v \in Verbs}
  \cup UNION {q.permissions[k].subjects \X q.permissions[k].verbs : k \in 1..Len(q.permissions)}

\* The request's queue with the caller as user owner when it lists none.
Defaulted(p) ==
  IF req[p].newQueue.userOwners = {}
  THEN [req[p].newQueue EXCEPT !.userOwners = {req[p].principal}]
  ELSE req[p].newQueue

ReadsAbsentQueue(p) ==
  \/ /\ pc[p] \in {"gq_get", "g_getQueue"}
     /\ queues[req[p].queue] = NoQueue
  \/ /\ pc[p] = "q_update"
     /\ checkPermission(Principal(p), "create_queue")
     /\ ValidQueue(req[p].newQueue)
     /\ queues[req[p].newQueue.name] = NoQueue

\* C25 as stated: GetQueue, GetQueueInfo and UpdateQueue each return
\* NotFound when the registry reports the queue as not found.
C25_AbsentQueueIsNotFound ==
  [][\A p \in Procs :
       ReadsAbsentQueue(p) /\ pc'[p] # pc[p] /\ faults' = faults
       => pc'[p] = "done" /\ ret'[p].status = "NotFound"]_vars

\* The steps whose collaborator is the event sink.
EventSinkSteps ==
  {"s_reportSubmitted", "s_reportFailedAll", "s_reportFailed", "s_reportDuplicate",
   "s_reportQueued", "c_cancelling", "c_cancelled",
   "r_reprioritizing", "r_updated", "r_reprioritized"}

\* C26 as stated: whenever a call to the queue registry, the job store or
\* the scheduling-info oracle fails, the operation that made the call
\* returns Unavailable.
C26_CollaboratorFailureIsUnavailable ==
  [][\A p \in Procs :
       /\ pc[p] \notin EventSinkSteps
       /\ faults' < faults
       /\ pc'[p] = "done" /\ pc[p] # "done"
       => ret'[p].status = "Unavailable"]_vars

\* The job is one the CancelJobs request of p names: the job with the
\* request's job id, or, without a job id, a job of the request's queue and
\* job set when both are given.
Targeted(p, j) ==
  IF req[p].jobId # 0 THEN j.id = req[p].jobId
  ELSE /\ req[p].queue # "" /\ req[p].jobSetId # ""
       /\ j.queue = req[p].queue /\ j.jobSetId = req[p].jobSetId

\* C27: CancelJobs with a job id deletes and reports only the job with
\* that id; without a job id and with both queue and job set id, only jobs
\* of that job set; in every other case it returns InvalidArgument with no
\* event and no delete.
C27_CancelDispatchFrame ==
  /\ [](\A p \in Procs :
          req[p].op = "cancel" =>
            /\ \A k \in 1..Len(loc[p].jobs) : Targeted(p, loc[p].jobs[k])
            /\ /\ pc[p] = "done"
               /\ req[p].jobId = 0 /\ (req[p].queue = "" \/ req[p].jobSetId = "")
               => /\ ret[p].status = "InvalidArgument"
                  /\ loc[p].deleted = {}
                  /\ \A k \in 1..Len(events) : events[k].by # p)
  /\ [][\A p \in Procs :
          req[p].op = "cancel" /\ pc'[p] # pc[p] =>
            /\ jobs' \subseteq jobs
            /\ \A j \in jobs \ jobs' : Targeted(p, j)
            /\ \A k \in (Len(events) + 1)..Len(events') :
                 \E i \in 1..Len(loc[p].jobs) : loc[p].jobs[i].id = events'[k].jobId]_vars

\* A request naming the job set js1 cancelled its job and left the job of
\* job set js2 in the store.
C27_OtherJobSetUntouched ==
  \E p \in Procs :
    /\ Done(p, "cancel") /\ ret[p].status = "OK"
    /\ req[p].jobId = 0
    /\ loc[p].deleted # {}
    /\ \E j \in jobs : j.queue = req[p].queue /\ j.jobSetId # req[p].jobSetId

\* The job is one the ReprioritizeJobs request of p names: by id, or,
\* without ids, by queue and job set.
TargetedByReprio(p, j) ==
  IF Len(req[p].jobIds) > 0 THEN \E k \in 1..Len(req[p].jobIds) : req[p].jobIds[k] = j.id
  ELSE j.queue = req[p].queue /\ j.jobSetId = req[p].jobSetId

\* C28: a stored job keeps every attribute but its priority: in every step
\* of every operation a job that stays in the store is unchanged, unless
\* the step is the commit of a ReprioritizeJobs request that targets the
\* job, which changes its priority, and only that, to the new priority;
\* after a committed update every job it fetched has the new priority.
C28_StoredJobsImmutableButPriority ==
  /\ [](\A a \in jobs, b \in jobs : a.id = b.id => a = b)
  /\ [](\A p \in Procs :
          Done(p, "reprioritize") /\ loc[p].update = "committed" =>
            \A k \in 1..Len(loc[p].snapshot) :
              [loc[p].snapshot[k] EXCEPT !.priority = req[p].newPriority] \in jobs)
  /\ [][\A j \in jobs : \A j2 \in jobs' :
          j2.id = j.id =>
            /\ [j EXCEPT !.priority = j2.priority] = j2
            /\ j2.priority # j.priority =>
                 \E p \in Procs :
                   /\ req[p].op = "reprioritize"
                   /\ pc[p] = "r_commit" /\ pc'[p] = "done"
                   /\ TargetedByReprio(p, j)
                   /\ j2.priority = req[p].newPriority]_vars

\* A request naming job 1 committed: job 1 has the new priority and the
\* other stored job its old one.
C28_OnePriorityChanged ==
  \E p \in Procs :
    /\ Done(p, "reprioritize") /\ loc[p].update = "committed"
    /\ req[p].jobIds = <<1>>
    /\ [StoredJob(1) EXCEPT !.priority = req[p].newPriority] \in jobs
    /\ StoredJob(2) \in jobs
    /\ req[p].newPriority # StoredJob(2).priority

\* C29: for every container of the pod spec of every job SubmitJobs built,
\* after defaulting: a resource has a request iff it has a limit; a
\* resource given only as a limit has a request equal to that limit, one
\* given only as a request a limit equal to that request; and a resource
\* that was in neither has, if present, a request equal to its limit.
C29_RequestsMatchLimits ==
  \A p \in Procs :
    req[p].op = "submit" =>
      \A k \in 1..Len(loc[p].jobs) :
        \A i \in 1..Len(req[p].items[k].pod.containers) :
          LET given == req[p].items[k].pod.containers[i]
              result == loc[p].jobs[k].pod.containers[i]
          IN /\ Len(loc[p].jobs[k].pod.containers) = Len(req[p].items[k].pod.containers)
             /\ DOMAIN result.requests = DOMAIN result.limits
             /\ \A r \in DOMAIN given.limits \ DOMAIN given.requests :
                  result.requests[r] = given.limits[r] /\ result.limits[r] = given.limits[r]
             /\ \A r \in DOMAIN given.requests \ DOMAIN given.limits :
                  result.limits[r] = given.requests[r] /\ result.requests[r] = given.requests[r]
             /\ \A r \in DOMAIN result.requests \ (DOMAIN given.requests \cup DOMAIN given.limits) :
                  result.requests[r] = result.limits[r]

\* A job was stored whose container gave cpu only as a limit and memory
\* not at all: cpu's request is the limit and memory has the default twice.
C29_LimitOnlyAndDefault ==
  \E p \in Procs :
    /\ Done(p, "submit") /\ ret[p].status = "OK"
    /\ Len(loc[p].jobs) = 1 /\ loc[p].jobs[1] \in jobs
    /\ req[p].items[1].pod.containers[1] =
         [requests |-> NoResources, limits |-> [r \in {"cpu"} |-> 2]]
    /\ loc[p].jobs[1].pod.containers[1].requests = [r \in {"cpu", "memory"} |->
                                                      IF r = "cpu" THEN 2 ELSE DefaultJobLimits[r]]
    /\ loc[p].jobs[1].pod.containers[1].limits = loc[p].jobs[1].pod.containers[1].requests

\* The pod lists a toleration with the default's key that matches the default.
HasMatching(tolerations, d) ==
  \E k \in 1..Len(tolerations) :
    tolerations[k].key = d.key /\ MatchToleration(d, tolerations[k])

\* C30 as stated: for every pod spec and every default toleration d, d is
\* appended to the pod's tolerations iff the pod lists no toleration with
\* d's key that matches d, also when the pod lists several tolerations
\* with one key.
C30_DefaultTolerationAppendedIffMissing ==
  \A p \in Procs :
    req[p].op = "submit" =>
      \A k \in 1..Len(loc[p].jobs) :
        LET given == req[p].items[k].pod.tolerations
            result == loc[p].jobs[k].pod.tolerations
            Missing(d) == ~HasMatching(given, d)
        IN result = given \o SelectSeq(DefaultJobTolerations, Missing)

\* The rule as the specification words it: every configuration lists a
\* port, and no port is listed by two configurations of the item.
IngressRule(item) ==
  /\ \A k \in 1..Len(item.ingress) : Len(item.ingress[k].ports) > 0
  /\ \A k, l \in 1..Len(item.ingress) :
       k # l => Range(item.ingress[k].ports) \cap Range(item.ingress[l].ports) = {}

\* The request was turned down by createJobsObjects at the item after the
\* ones it had built.
RejectedAtItem(p) ==
  /\ req[p].op = "submit"
  /\ pc[p] = "done"
  /\ loc[p].auth = "ok"
  /\ Len(loc[p].jobs) < Len(req[p].items)
  /\ ret[p].status = "InvalidArgument"

\* C31 as stated: ingress validation of an item succeeds iff every ingress
\* configuration lists at least one port and no port appears in two ingress
\* configurations of the item; when it fails, SubmitJobs returns
\* invalid-argument and has stored no job and appended no event.
C31_IngressValidation ==
  \A p \in Procs :
    /\ req[p].op = "submit" =>
         \A k \in 1..Len(loc[p].jobs) : IngressRule(req[p].items[k])
    /\ RejectedAtItem(p) =>
         /\ ~IngressRule(req[p].items[Len(loc[p].jobs) + 1])
         /\ jobs = {}
         /\ events = <<>>

\* The text the specification describes, read from the left: {{JobId}}
\* stands for the word JobId, {JobId} for the id, anything else for itself.
RECURSIVE Enriched(_, _)
Enriched(s, id) ==
  IF Len(s) = 0 THEN <<>>
  ELSE IF Len(s) >= 5 /\ SubSeq(s, 1, 5) = <<"{", "{", "JobId", "}", "}">>
  THEN <<"JobId">> \o Enriched(SubSeq(s, 6, Len(s)), id)
  ELSE IF Len(s) >= 3 /\ SubSeq(s, 1, 3) = <<"{", "JobId", "}">>
  THEN <<ToString(id)>> \o Enriched(SubSeq(s, 4, Len(s)), id)
  ELSE <<Head(s)>> \o Enriched(Tail(s), id)

EnrichedMap(given, id) == [key \in DOMAIN given |-> Enriched(given[key], id)]

\* C32 as stated: in every label and annotation value of a built job each
\* {JobId} is the job's minted id, each {{JobId}} is the word JobId, and
\* all other text and every key is as the item gave it.
C32_JobIdSubstitution ==
  \A p \in Procs :
    req[p].op = "submit" =>
      \A k \in 1..Len(loc[p].jobs) :
        LET item == req[p].items[k]
            job == loc[p].jobs[k]
        IN /\ job.labels = EnrichedMap(item.labels, job.id)
           /\ job.annotations = EnrichedMap(item.annotations, job.id)

\* Permissions a handler may ask for, and one no map names.
AllPermissions == AnyPerms \cup {"create_queue", "delete_queue", "execute_jobs"}

\* The values the configuration lists for perm in a map.
ListedFor(permMap, perm) == UNION {permMap[x] : x \in DOMAIN permMap \cap {perm}}

\* The principal holds a scope, a group or a claim listed for perm.
Listed(pr, perm) ==
  \/ pr.scopes \cap ListedFor(permissionScopeMap, perm) # {}
  \/ pr.groups \cap ListedFor(permissionGroupMap, perm) # {}
  \/ pr.claims \cap ListedFor(permissionClaimMap, perm) # {}

QueueOpPermission(op) ==
  IF op = "deleteQueue" THEN "delete_queue" ELSE "create_queue"

\* C33: UserHasPermission is true iff the principal holds a scope, a group
\* or a claim listed for the permission; it is false for a permission no
\* map names and for a principal with no scope, group or claim.  Every
\* handler acts on that answer: a queue operation is refused with
\* PermissionDenied iff the caller lacks the permission, and a job
\* operation is denied only to a caller who lacks it.
C33_UserHasPermission ==
  /\ \A pr \in Principals, perm \in AllPermissions :
       /\ UserHasPermission(pr, perm) <=> Listed(pr, perm)
       /\ perm = "execute_jobs" => ~UserHasPermission(pr, perm)
       /\ pr.scopes \cup pr.groups \cup pr.claims = {} => ~UserHasPermission(pr, perm)
  /\ \A p \in Procs :
       /\ pc[p] = "done" /\ req[p].op \in {"createQueue", "updateQueue", "deleteQueue"} =>
            (ret[p].status = "PermissionDenied"
               <=> ~Listed(Principal(p), QueueOpPermission(req[p].op)))
       /\ req[p].op \in {"submit", "cancel", "reprioritize", "queueInfo"}
            /\ loc[p].auth = "denied" =>
            ~Listed(Principal(p), AnyPermOf(VerbOf(req[p].op)))

\* A caller whose only title to the permission is a claim was admitted to
\* a queue that grants the caller nothing.
C33_AdmittedByClaim ==
  \E p \in Procs :
    /\ req[p].op = "reprioritize"
    /\ req[p].principal = "svc"
    /\ loc[p].auth = "ok"
    /\ Len(loc[p].jobs) > 0
    /\ \A k \in 1..Len(loc[p].jobs) :
         ~checkQueuePermission(Principal(p), queues[loc[p].jobs[k].queue], "reprioritize")

\* C34: UserOwns returns (true, no groups) whenever the principal's name is
\* among obj's user owners, whatever groups the principal is in; otherwise
\* the groups it returns are exactly the group owners of obj the principal
\* is a member of, and owned tells whether there is one.
C34_UserOwns ==
  \A p \in Procs :
    req[p].op = "userOwns" /\ pc[p] = "done" =>
      LET pr == Principal(p)
          obj == req[p].obj
          r == ret[p].result[1]
      IN IF pr.name \in Range(obj.userOwners)
         THEN r.owned /\ r.ownershipGroups = <<>>
         ELSE /\ Range(r.ownershipGroups) = Range(obj.groupOwners) \cap pr.groups
              /\ r.owned <=> r.ownershipGroups # <<>>

\* A user owner who is also in an owning group was answered.
C34_DirectOwnerInOwningGroup ==
  \E p \in Procs :
    /\ req[p].op = "userOwns"
    /\ pc[p] = "done"
    /\ Principal(p).name \in Range(req[p].obj.userOwners)
    /\ Range(req[p].obj.groupOwners) \cap Principal(p).groups # {}

\* C35: for every container of a built job and every resource r with a
\* default limit, the request and the limit of r are the default when the
\* item's container named r neither as request nor as limit; when it named
\* r, they are the values it named, the missing one of the two being the
\* other's.
C35_DefaultsOnlyWhenUnnamed ==
  \A p \in Procs :
    req[p].op = "submit" =>
      \A k \in 1..Len(loc[p].jobs) :
        \A i \in 1..Len(req[p].items[k].pod.containers) :
          \A r \in DOMAIN DefaultJobLimits :
            LET given == req[p].items[k].pod.containers[i]
                result == loc[p].jobs[k].pod.containers[i]
                request == IF r \in DOMAIN given.requests THEN given.requests[r] ELSE given.limits[r]
                limit == IF r \in DOMAIN given.limits THEN given.limits[r] ELSE given.requests[r]
            IN /\ r \in DOMAIN result.requests /\ r \in DOMAIN result.limits
               /\ IF r \notin DOMAIN given.requests /\ r \notin DOMAIN given.limits
                  THEN result.requests[r] = DefaultJobLimits[r]
                       /\ result.limits[r] = DefaultJobLimits[r]
                  ELSE result.requests[r] = request /\ result.limits[r] = limit

\* A job was built from a container that named a defaulted resource only
\* as a request.
C35_RequestOnlyOfDefaulted ==
  \E p \in Procs :
    /\ req[p].op = "submit"
    /\ Len(loc[p].jobs) = 1
    /\ req[p].items[1].pod.containers[1] =
         [requests |-> [r \in {"memory"} |-> 1], limits |-> NoResources]
    /\ loc[p].jobs[1].pod.containers[1].requests["memory"] = 1

\* C36: a response of SubmitJobs has one item per request item, in input
\* order.  Item i of the response carries an error iff the job built from
\* request item i was refused by the store, the id minted for it when that
\* job was stored, and the id of the stored job with its key when it was a
\* duplicate; every failed or queued event of the request is for the job
\* built from a request item with that outcome.
C36_ResponseInInputOrder ==
  \A p \in Procs :
    req[p].op = "submit" =>
      LET js == loc[p].jobs
          results == loc[p].results
      IN /\ ret[p].result # Nil =>
              LET resp == ret[p].result[1]
              IN /\ Len(resp) = Len(req[p].items)
                 /\ \A i \in 1..Len(resp) :
                      /\ js[i].clientId = req[p].items[i].clientId
                      /\ resp[i].error = results[i].error
                      /\ IF resp[i].error
                         THEN js[i] \notin jobs /\ resp[i].jobId = js[i].id
                         ELSE IF js[i] \in jobs
                         THEN resp[i].jobId = js[i].id
                         ELSE \E s \in jobs : /\ s.id = resp[i].jobId
                                              /\ s.id # js[i].id
                                              /\ s.clientId = js[i].clientId
                                              /\ s.queue = js[i].queue
                                              /\ s.jobSetId = js[i].jobSetId
         /\ ~loc[p].addErr =>
              \A k \in 1..Len(events) :
                events[k].by = p /\ events[k].type \in {"failed", "queued"} =>
                  \E i \in 1..Len(results) :
                    /\ js[i].id = events[k].jobId
                    /\ events[k].type = "failed" => results[i].error /\ js[i] \notin jobs
                    /\ events[k].type = "queued" => ~results[i].error /\ js[i] \in jobs

\* A response of two items was returned: the first with an error, the
\* second for a stored job, each with its event.
C36_FailedThenCreated ==
  \E p \in Procs :
    /\ req[p].op = "submit" /\ pc[p] = "done" /\ ret[p].result # Nil
    /\ Len(ret[p].result[1]) = 2
    /\ ret[p].result[1][1].error /\ ~ret[p].result[1][2].error
    /\ loc[p].jobs[2] \in jobs
    /\ \E k, l \in 1..Len(events) :
         /\ events[k] = [type |-> "failed", jobId |-> loc[p].jobs[1].id, by |-> p]
         /\ events[l] = [type |-> "queued", jobId |-> loc[p].jobs[2].id, by |-> p]

\* C37 as stated: whatever the interleaving of CancelJobs and
\* ReprioritizeJobs requests on a job, the sink holds no reprioritizing,
\* updated or reprioritized event of the job after its cancelled event.
C37_NoReprioritizeEventAfterCancelled ==
  \A k, l \in 1..Len(events) :
    /\ k < l
    /\ events[k].type = "cancelled"
    /\ events[l].jobId = events[k].jobId
    => events[l].type \notin {"reprioritizing", "updated", "reprioritized"}

\* The request reported reprioritizing and then failed to append an event
\* inside the mutator.
MutatorReportFailed(p) ==
  /\ req[p].op = "reprioritize"
  /\ pc[p] = "done"
  /\ loc[p].reportErr
  /\ \E k \in 1..Len(events) : events[k].type = "reprioritizing" /\ events[k].by = p

\* C38: when the updated or the reprioritized event cannot be appended
\* inside the mutator, update_jobs still commits the new priority and
\* ReprioritizeJobs returns OK with an empty error string for every job it
\* fetched, which then has a reprioritizing event of the request and no
\* reprioritized event.
C38_MutatorReportFailureOnlyLogged ==
  \A p \in Procs :
    MutatorReportFailed(p) =>
      /\ loc[p].update = "committed"
      /\ ret[p].status = "OK"
      /\ \A k \in 1..Len(loc[p].snapshot) :
           LET job == loc[p].snapshot[k]
           IN /\ ret[p].result[1][job.id] = ""
              /\ [job EXCEPT !.priority = req[p].newPriority] \in jobs
              /\ \E e \in 1..Len(events) :
                   events[e] = [type |-> "reprioritizing", jobId |-> job.id, by |-> p]
              /\ \A e \in 1..Len(events) :
                   events[e] # [type |-> "reprioritized", jobId |-> job.id, by |-> p]

\* A stored job has a new priority and a reprioritizing event, and the
\* request returned OK, without a reprioritized event.
C38_PriorityChangedUnreported ==
  \E p \in Procs :
    /\ MutatorReportFailed(p)
    /\ ret[p].status = "OK"
    /\ Len(loc[p].snapshot) > 0
    /\ \A k \in 1..Len(loc[p].snapshot) :
         /\ loc[p].snapshot[k].priority # req[p].newPriority
         /\ [loc[p].snapshot[k] EXCEPT !.priority = req[p].newPriority] \in jobs
    /\ \A e \in 1..Len(events) : events[e].type # "reprioritized"

\* The request names no job id and not both a queue and a job set.
NamesNothing(p) ==
  /\ req[p].op = "reprioritize"
  /\ req[p].jobIds = <<>>
  /\ ~(req[p].queue # "" /\ req[p].jobSetId # "")

\* C39: ReprioritizeJobs never returns InvalidArgument.  A request that
\* names no job id and not both queue and job set returns OK with an empty
\* result map and leaves every stored job as it was; the result map of a
\* request that names job ids has no entry for an id no stored job has.
C39_ReprioritizeNothingIsNotAnError ==
  \A p \in Procs :
    req[p].op = "reprioritize" /\ pc[p] = "done" =>
      /\ ret[p].status # "InvalidArgument"
      /\ NamesNothing(p) =>
           /\ ret[p].status = "OK"
           /\ DOMAIN ret[p].result[1] = {}
           /\ jobs = {StoredJob(i) : i \in 1..(nextId - 1)}
      /\ ret[p].status = "OK" =>
           \A k \in 1..Len(req[p].jobIds) :
             (\A j \in jobs : j.id # req[p].jobIds[k]) =>
               req[p].jobIds[k] \notin DOMAIN ret[p].result[1]

\* A request naming nothing returned while the store held jobs.
C39_EmptyRequestAnswered ==
  \E p \in Procs :
    /\ NamesNothing(p)
    /\ pc[p] = "done"
    /\ ret[p].status = "OK"
    /\ jobs # {}

\* The step finishes the last batch of a set-scoped CancelJobs request.
FinishesLastBatch(p) ==
  /\ req[p].op = "cancel" /\ BySet(p)
  /\ loc'[p].bi = loc[p].bi + 1
  /\ loc'[p].bi = Len(Batches(p))

\* C40: the deadline check of set-scoped CancelJobs also runs after the
\* last batch.  The step that finishes the last batch returns
\* DeadlineExceeded when the remaining deadline is under one second, and OK
\* otherwise; a DeadlineExceeded returned after the last batch carries the
\* ids deleted in all the batches; and a request that went through a batch
\* returns OK only from the step that finishes the last batch with a
\* second or more remaining.
C40_DeadlineCheckedAfterLastBatch ==
  /\ [](\A p \in Procs :
          /\ Done(p, "cancel") /\ BySet(p)
          /\ ret[p].status = "DeadlineExceeded"
          /\ loc[p].bi = Len(Batches(p))
          => /\ ret[p].result # Nil
             /\ Range(ret[p].result[1].cancelledIds) = loc[p].deleted
             /\ \A id \in Range(loc[p].ids) :
                  id \in loc[p].deleted \/ \E j \in jobs : j.id = id)
  /\ [][\A p \in Procs :
          FinishesLastBatch(p) =>
            /\ pc'[p] = "done"
            /\ ret'[p].status = IF UnderOneSecond(p) THEN "DeadlineExceeded" ELSE "OK"]_vars
  /\ [][\A p \in Procs :
          /\ req[p].op = "cancel" /\ BySet(p)
          /\ pc[p] # "done" /\ pc'[p] = "done"
          /\ ret'[p].status = "OK"
          /\ Len(Batches(p)) > 0
          => FinishesLastBatch(p) /\ ~UnderOneSecond(p)]_vars

\* A request of two batches deleted the jobs of both and returned
\* DeadlineExceeded after the second.
C40_AllBatchesDoneYetDeadlineExceeded ==
  \E p \in Procs :
    /\ Done(p, "cancel") /\ BySet(p)
    /\ ret[p].status = "DeadlineExceeded"
    /\ Len(Batches(p)) = 2
    /\ loc[p].bi = 2
    /\ Cardinality(loc[p].deleted) = 2
    /\ Range(ret[p].result[1].cancelledIds) = loc[p].deleted
    /\ jobs = {}
====
